---- MODULE Spec2Model ----
(***************************************************************************)
(* Model of the lab8 discrete-event simulator of vladimirruppel/           *)
(* modeling-labs: the module-level random source used by RandomGenerator,  *)
(* the heapq-backed EventQueue, the SimulationEngine event loop, the       *)
(* aggregation of realizations (MultiRealizationStatistics) and the        *)
(* validation against MarkovianQueueTheory.                                *)
(*                                                                         *)
(* Simulated time is counted in integer ticks.  A Python None is modelled  *)
(* by the value None (-1), which is never a valid time, id or capacity.    *)
(***************************************************************************)
EXTENDS Integers, Sequences, FiniteSets, TLC

(* ------------------------------ bounds --------------------------------- *)
RngMod == 16          \* number of states of the modelled random source
UniformLevels == 4    \* random.random() is quantised to u/UniformLevels
MaxT == 6             \* largest horizon T passed to run_single_realization
MaxChannels == 2      \* largest n_channels
MaxQueue == 2         \* largest finite m_queue
MaxRate == 2          \* largest lambda_param / mu_param
MaxSeed == 0          \* seeds are None or 0..MaxSeed
MaxRuns == 1          \* realizations run on one engine
MaxPushes == 4        \* pushes made on the EventQueue under test
MaxTime == 2          \* largest event time pushed on the EventQueue under test
MaxParam == 2         \* valid distribution parameter passed to a generator under test
MaxCalls == 2         \* sampling calls made on one generator under test
MaxRealizations == 2  \* realizations handed to one MultiRealizationStatistics
MaxLevel == 1         \* highest occupancy level in an aggregated realization
MaxMetric == 2        \* largest metric value in an aggregated realization
MaxState == 2         \* highest state whose theoretical probability is kept
MaxEpsilon == 2       \* largest tolerance epsilon, in halves
MaxArrivals == 3      \* requests followed in a realization with positive intervals

None == -1

VARIABLES
    rng,        \* state of the module-level generator of `random`
    eng,        \* engine id -> SimulationEngine object
    qheap,      \* EventQueue._heap of the queue under test
    qcount,     \* number of pushes made on the queue under test
    qpopped,    \* every event returned by pop on the queue under test, in order
    qsince,     \* number of pops since the last push
    qerr,       \* TRUE when the last operation on the queue under test raised
    qlast,      \* last operation on the queue under test and what it returned
    gen,        \* generator id -> RandomGenerator object under test
    agg,        \* the MultiRealizationStatistics object under test
    theory,     \* the last result of MarkovianQueueTheory, with its arguments
    validation  \* the last ValidationResults, with the epsilon it was made with

vars == <<rng, eng, qheap, qcount, qpopped, qsince, qerr, qlast, gen,
          agg, theory, validation>>

(* ------------------------- module `random` ----------------------------- *)
\* random.seed(seed): the generator state becomes a function of the seed only.
RandomSeed(seed) == seed % RngMod

RngNext(g) == (5 * g + 1) % RngMod

\* random.random(): advances the generator and returns a uniform level
\* u, standing for R = u / UniformLevels in [0, 1).
RandomRandom(g) ==
    [rng |-> RngNext(g), R |-> (RngNext(g) \div 4) % UniformLevels]

\* -math.log(max(R, 1e-10)) in ticks: largest for the clamped R = 0,
\* decreasing in R, below one tick for R close to 1.
NegLogTicks(u) == IF u = 0 THEN UniformLevels ELSE (UniformLevels \div u) - 1

\* RandomGenerator.generate_exponential
generate_exponential(g, lambda_param) ==
    IF lambda_param <= 0
    THEN [ok |-> FALSE, rng |-> g, val |-> 0]
    ELSE LET d == RandomRandom(g)
         IN  [ok |-> TRUE, rng |-> d.rng, val |-> NegLogTicks(d.R) \div lambda_param]

\* x ** n for a natural exponent n
RECURSIVE Pow(_, _)
Pow(x, n) == IF n = 0 THEN 1 ELSE x * Pow(x, n - 1)

\* x ** (1.0 / a) in whole ticks: the largest r with r ** a <= x
Root(x, a) == CHOOSE r \in 0..x : Pow(r, a) <= x /\ Pow(r + 1, a) > x

\* RandomGenerator.generate_weibull: b * ((-ln R) ** (1.0 / a))
generate_weibull(g, a, b) ==
    IF a <= 0 \/ b <= 0
    THEN [ok |-> FALSE, rng |-> g, val |-> 0]
    ELSE LET d == RandomRandom(g)
         IN  [ok |-> TRUE, rng |-> d.rng, val |-> b * Root(NegLogTicks(d.R), a)]

\* The loop of generate_gamma over range(eta): one draw per iteration,
\* sum_ln += math.log(1.0 - R), which is never positive.
RECURSIVE GammaLoop(_, _, _)
GammaLoop(g, eta, sum_ln) ==
    IF eta <= 0
    THEN [rng |-> g, sum_ln |-> sum_ln]
    ELSE LET d == RandomRandom(g)
         IN  GammaLoop(d.rng, eta - 1, sum_ln - NegLogTicks(UniformLevels - d.R))

\* Mutant of generate_gamma: the sum of logarithms is not negated.
generate_gamma_unnegated(g, lambda_param, eta) ==
    IF lambda_param <= 0 \/ eta <= 0
    THEN [ok |-> FALSE, rng |-> g, val |-> 0]
    ELSE LET l == GammaLoop(g, eta, 0)
         IN  [ok |-> TRUE, rng |-> l.rng, val |-> -((-l.sum_ln) \div lambda_param)]

\* RandomGenerator.generate_gamma: -(1.0 / lambda_param) * sum_ln
generate_gamma(g, lambda_param, eta) ==
    IF lambda_param <= 0 \/ eta <= 0
    THEN [ok |-> FALSE, rng |-> g, val |-> 0]
    ELSE LET l == GammaLoop(g, eta, 0)
         IN  [ok |-> TRUE, rng |-> l.rng, val |-> (-l.sum_ln) \div lambda_param]

\* sum(random.random() for _ in range(k)), in uniform levels
RECURSIVE SumDraws(_, _, _)
SumDraws(g, k, sum_R) ==
    IF k = 0
    THEN [rng |-> g, sum_R |-> sum_R]
    ELSE LET d == RandomRandom(g)
         IN  SumDraws(d.rng, k - 1, sum_R + d.R)

\* sigma * sqrt(2) * (sum_R - 3.0) + m, with sqrt(2) taken as 141/100 and
\* sum_R counted in uniform levels; negative when the six draws are small.
NormalValue(m, sigma, sum_R) ==
    (sigma * 141 * (sum_R - 3 * UniformLevels)) \div (100 * UniformLevels) + m

\* Mutant of generate_normal: the draws are taken before sigma is checked.
generate_normal_draw_first(g, m, sigma) ==
    LET s == SumDraws(g, 6, 0)
    IN  IF sigma <= 0
        THEN [ok |-> FALSE, rng |-> s.rng, val |-> 0]
        ELSE [ok |-> TRUE, rng |-> s.rng, val |-> NormalValue(m, sigma, s.sum_R)]

\* RandomGenerator.generate_normal: six draws, taken after sigma is checked
generate_normal(g, m, sigma) ==
    IF sigma <= 0
    THEN [ok |-> FALSE, rng |-> g, val |-> 0]
    ELSE LET s == SumDraws(g, 6, 0)
         IN  [ok |-> TRUE, rng |-> s.rng, val |-> NormalValue(m, sigma, s.sum_R)]

\* RandomGenerator.generate: dispatch on the distribution type
generate(g, dist_type, kwargs) ==
    CASE dist_type = "EXPONENTIAL" ->
            generate_exponential(g, kwargs.lambda_param)
      [] dist_type = "WEIBULL" -> generate_weibull(g, kwargs.a, kwargs.b)
      [] dist_type = "GAMMA" ->
            generate_gamma(g, kwargs.lambda_param, kwargs.eta)
      [] dist_type = "NORMAL" -> generate_normal(g, kwargs.m, kwargs.sigma)

(* ------------------------------ heapq ---------------------------------- *)
\* Mutant of EventLt: the later event compares as smaller.
EventLt_later_first(a, b) == a.time > b.time

\* Event.__lt__ generated by dataclass(order=True): only `time` compares.
EventLt(a, b) == a.time < b.time

Event(time, event_type, request_id, channel_id) ==
    [time |-> time, event_type |-> event_type,
     request_id |-> request_id, channel_id |-> channel_id]

\* Positions are 0-based as in heapq; heap[pos + 1] is the element at pos.
RECURSIVE SiftdownLoop(_, _, _, _)
SiftdownLoop(heap, startpos, pos, newitem) ==
    IF pos > startpos
    THEN LET parentpos == (pos - 1) \div 2
             parent == heap[parentpos + 1]
         IN  IF EventLt(newitem, parent)
             THEN SiftdownLoop([heap EXCEPT ![pos + 1] = parent],
                               startpos, parentpos, newitem)
             ELSE [heap EXCEPT ![pos + 1] = newitem]
    ELSE [heap EXCEPT ![pos + 1] = newitem]

Siftdown(heap, startpos, pos) == SiftdownLoop(heap, startpos, pos, heap[pos + 1])

RECURSIVE SiftupLoop(_, _, _)
SiftupLoop(heap, pos, endpos) ==
    LET childpos == 2 * pos + 1
        rightpos == childpos + 1
        smaller == IF rightpos < endpos
                      /\ ~EventLt(heap[childpos + 1], heap[rightpos + 1])
                   THEN rightpos ELSE childpos
    IN  IF childpos < endpos
        THEN SiftupLoop([heap EXCEPT ![pos + 1] = heap[smaller + 1]],
                        smaller, endpos)
        ELSE [heap |-> heap, pos |-> pos]

Siftup(heap, pos) ==
    LET newitem == heap[pos + 1]
        r == SiftupLoop(heap, pos, Len(heap))
    IN  Siftdown([r.heap EXCEPT ![r.pos + 1] = newitem], pos, r.pos)

\* Mutant of HeapPush: list.append in place of heapq.heappush.
HeapPush_append(heap, item) == Append(heap, item)

\* heapq.heappush, as called by EventQueue.push
HeapPush(heap, item) == Siftdown(Append(heap, item), 0, Len(heap))

\* heapq.heappop, as called by EventQueue.pop on a non-empty heap
HeapPop(heap) ==
    LET lastelt == heap[Len(heap)]
        rest == SubSeq(heap, 1, Len(heap) - 1)
    IN  IF rest # <<>>
        THEN [item |-> rest[1], heap |-> Siftup([rest EXCEPT ![1] = lastelt], 0)]
        ELSE [item |-> lastelt, heap |-> rest]

(* ---------------------------- Request -------------------------------- *)
Request(request_id, arrival_time, service_duration) ==
    [request_id |-> request_id, arrival_time |-> arrival_time,
     service_duration |-> service_duration,
     service_start_time |-> None, service_end_time |-> None,
     queue_entry_time |-> None, queue_exit_time |-> None,
     was_rejected |-> FALSE]

\* Request.get_wait_time
get_wait_time(r) ==
    IF r.service_start_time = None \/ r.queue_entry_time = None
    THEN 0
    ELSE r.service_start_time - r.queue_entry_time

\* Request.get_system_time
get_system_time(r) ==
    IF r.service_end_time = None THEN 0 ELSE r.service_end_time - r.arrival_time

(* --------------------------- QueueSystem ------------------------------- *)
\* Mutant of QueueSystem: the histogram starts with no key.
QueueSystem_no_preinit(n_channels, m_queue) ==
    [channels |-> [i \in 1..n_channels |-> None], queue |-> <<>>,
     current_time |-> 0, state_history |-> <<>>]

\* The fields QueueSystem.__post_init__ leaves in a new system.  Channel
\* channel_id (0-based) is channels[channel_id + 1]; a channel or a waiting
\* line slot holds the request_id of its Request object, and the object
\* itself is all_requests[request_id + 1].
QueueSystem(n_channels, m_queue) ==
    [channels |-> [i \in 1..n_channels |-> None],
     queue |-> <<>>,
     current_time |-> 0,
     state_history |->
        [state \in 0..(n_channels + (IF m_queue = None THEN 0 ELSE m_queue)) |-> 0]]

get_busy_channels(e) ==
    Cardinality({i \in 1..Len(e.channels) : e.channels[i] # None})

get_queue_length(e) == Len(e.queue)

get_state(e) == get_busy_channels(e) + get_queue_length(e)

\* Mutant of get_free_channel_id: looks at channel 0 only.
get_free_channel_id_first_only(e) ==
    IF e.channels[1] = None THEN 0 ELSE None

get_free_channel_id(e) ==
    LET free == {i \in 1..Len(e.channels) : e.channels[i] = None}
    IN  IF free = {} THEN None
        ELSE (CHOOSE i \in free : \A j \in free : i <= j) - 1

\* Mutant of is_queue_full: > in place of >=.
is_queue_full_strict(e) ==
    IF e.m_queue = None THEN FALSE ELSE Len(e.queue) > e.m_queue

\* Mutant of is_queue_full: a missing capacity read as 0 (self.m_queue or 0).
is_queue_full_none_as_zero(e) ==
    Len(e.queue) >= (IF e.m_queue = None THEN 0 ELSE e.m_queue)

is_queue_full(e) ==
    IF e.m_queue = None THEN FALSE ELSE Len(e.queue) >= e.m_queue

\* Mutant of start_service: the start is stamped with the arrival time.
start_service_at_arrival(e, channel_id, request_id) ==
    [e EXCEPT !.channels[channel_id + 1] = request_id,
              !.all_requests[request_id + 1].service_start_time =
                  e.all_requests[request_id + 1].arrival_time,
              !.all_requests[request_id + 1].queue_exit_time = e.current_time]

start_service(e, channel_id, request_id) ==
    [e EXCEPT !.channels[channel_id + 1] = request_id,
              !.all_requests[request_id + 1].service_start_time = e.current_time,
              !.all_requests[request_id + 1].queue_exit_time = e.current_time]

\* Mutant of finish_service: the channel is not freed.
finish_service_keeps_channel(e, channel_id) ==
    LET request_id == e.channels[channel_id + 1]
    IN  [e EXCEPT !.all_requests[request_id + 1].service_end_time = e.current_time]

\* finish_service on a channel that holds a request
finish_service(e, channel_id) ==
    LET request_id == e.channels[channel_id + 1]
    IN  [e EXCEPT !.all_requests[request_id + 1].service_end_time = e.current_time,
                  !.channels[channel_id + 1] = None]

(* ------------------------- SimulationEngine ---------------------------- *)
\* An engine that has not been constructed yet.
AbsentEngine ==
    [pc |-> "absent", runs |-> 0, rng0 |-> 0,
     n_channels |-> 0, m_queue |-> None, lambda_param |-> 0, mu_param |-> 0,
     seed |-> None, T |-> 0,
     channels |-> <<>>, queue |-> <<>>, current_time |-> 0,
     state_history |-> <<>>, heap |-> <<>>, request_counter |-> 0,
     all_requests |-> <<>>, rejected_requests |-> <<>>,
     last_state_time |-> 0, last_state |-> 0, stats |-> <<>>,
     visited |-> {}, queue_integral |-> 0, busy_integral |-> 0]

\* SimulationEngine.__init__ apart from the seeding done by RandomGenerator.
\* pc, runs and rng0 are bookkeeping of the model: where the engine is in
\* its life, how many realizations were started on it, and the state of the
\* random source when the current realization started.  visited,
\* queue_integral and busy_integral observe the current realization without
\* taking part in it: the occupancy levels the system has been in, and the
\* waiting-line length and the number of busy channels integrated over the
\* time accounted so far.
NewEngine(n_channels, m_queue, lambda_param, mu_param, seed) ==
    LET system == QueueSystem(n_channels, m_queue)
    IN  [AbsentEngine EXCEPT
            !.pc = "constructed",
            !.n_channels = n_channels, !.m_queue = m_queue,
            !.lambda_param = lambda_param, !.mu_param = mu_param,
            !.seed = seed,
            !.channels = system.channels, !.queue = system.queue,
            !.current_time = system.current_time,
            !.state_history = system.state_history]

\* RandomGenerator.__init__: seeds the module-level generator.
RandomGeneratorInit(g, seed) == IF seed # None THEN RandomSeed(seed) ELSE g

\* The engines modelled keep the default arrival_dist and service_dist,
\* DistributionType.EXPONENTIAL, so the first branch of each dispatch is taken.
_generate_arrival_interval(e, g) == generate_exponential(g, e.lambda_param)

_generate_service_time(e, g) == generate_exponential(g, e.mu_param)

\* Every engine operation below maps an engine and the state of the random
\* source to the pair of both after the operation; a raised exception
\* leaves pc = "error" and everything mutated before the raise in place.
Raised(e, g) == [e |-> [e EXCEPT !.pc = "error"], rng |-> g]

\* Mutant of _schedule_arrival: no event is pushed.
_schedule_arrival_nothing(e, g, time) == [e |-> e, rng |-> g]

_schedule_arrival(e, g, time) ==
    LET s == _generate_arrival_interval(e, g)
    IN  IF ~s.ok THEN Raised(e, g)
        ELSE [e |-> [e EXCEPT !.heap =
                        HeapPush(e.heap, Event(time + s.val, "ARRIVAL",
                                               e.request_counter, None))],
              rng |-> s.rng]

_schedule_service_end(e, time, request_id, channel_id, service_time) ==
    [e EXCEPT !.heap = HeapPush(e.heap, Event(time + service_time, "END_SERVICE",
                                              request_id, channel_id))]

_handle_arrival(e, g, time) ==
    LET e1 == [e EXCEPT !.current_time = time,
                        !.request_counter = e.request_counter + 1]
        s == _generate_service_time(e1, g)
        service_time == s.val
        request_id == e1.request_counter - 1
        e2 == [e1 EXCEPT !.all_requests =
                   Append(e1.all_requests, Request(request_id, time, service_time))]
        free_channel_id == get_free_channel_id(e2)
        e3 == IF free_channel_id # None
              THEN _schedule_service_end(
                       start_service(e2, free_channel_id, request_id),
                       time, request_id, free_channel_id, service_time)
              ELSE IF ~is_queue_full(e2)
              THEN [e2 EXCEPT !.all_requests[request_id + 1].queue_entry_time = time,
                              !.queue = Append(e2.queue, request_id)]
              ELSE [e2 EXCEPT !.all_requests[request_id + 1].was_rejected = TRUE,
                              !.rejected_requests =
                                  Append(e2.rejected_requests, request_id)]
    IN  IF ~s.ok THEN Raised(e1, g) ELSE _schedule_arrival(e3, s.rng, time)

\* Mutant of _handle_service_end: the request taken from the waiting line is
\* served for the duration of the request that has just finished.
_handle_service_end_other_duration(e, time, request_id, channel_id) ==
    LET e1 == [e EXCEPT !.current_time = time]
        e2 == finish_service(e1, channel_id)
        next_request == Head(e2.queue)
        e3 == [e2 EXCEPT !.queue = Tail(e2.queue),
                         !.all_requests[next_request + 1].queue_exit_time = time]
        service_time == e3.all_requests[request_id + 1].service_duration
    IN  IF e1.channels[channel_id + 1] = None
        THEN [e1 EXCEPT !.pc = "error"]
        ELSE IF e2.queue # <<>>
        THEN _schedule_service_end(start_service(e3, channel_id, next_request),
                                   time, next_request, channel_id, service_time)
        ELSE e2

\* Mutant of _handle_service_end: the request that entered the waiting line
\* last is taken (pop in place of popleft).
_handle_service_end_lifo(e, time, request_id, channel_id) ==
    LET e1 == [e EXCEPT !.current_time = time]
        e2 == finish_service(e1, channel_id)
        next_request == e2.queue[Len(e2.queue)]
        e3 == [e2 EXCEPT !.queue = SubSeq(e2.queue, 1, Len(e2.queue) - 1),
                         !.all_requests[next_request + 1].queue_exit_time = time]
        service_time == e3.all_requests[next_request + 1].service_duration
    IN  IF e1.channels[channel_id + 1] = None
        THEN [e1 EXCEPT !.pc = "error"]
        ELSE IF e2.queue # <<>>
        THEN _schedule_service_end(start_service(e3, channel_id, next_request),
                                   time, next_request, channel_id, service_time)
        ELSE e2

\* Mutant of _handle_service_end: the channel is freed and the waiting line
\* is left as it is.
_handle_service_end_no_dequeue(e, time, request_id, channel_id) ==
    LET e1 == [e EXCEPT !.current_time = time]
    IN  IF e1.channels[channel_id + 1] = None
        THEN [e1 EXCEPT !.pc = "error"]
        ELSE finish_service(e1, channel_id)

_handle_service_end(e, time, request_id, channel_id) ==
    LET e1 == [e EXCEPT !.current_time = time]
        e2 == finish_service(e1, channel_id)
        next_request == Head(e2.queue)
        e3 == [e2 EXCEPT !.queue = Tail(e2.queue),
                         !.all_requests[next_request + 1].queue_exit_time = time]
        service_time == e3.all_requests[next_request + 1].service_duration
    IN  IF e1.channels[channel_id + 1] = None
        THEN [e1 EXCEPT !.pc = "error"]   \* finish_service: None has no attribute
        ELSE IF e2.queue # <<>>
        THEN _schedule_service_end(start_service(e3, channel_id, next_request),
                                   time, next_request, channel_id, service_time)
        ELSE e2

\* Mutant of CountServed: counts the requests whose service has ended.
CountServed_completed(e) ==
    Cardinality({i \in 1..Len(e.all_requests) :
                    e.all_requests[i].service_end_time # None})

\* len([r for r in self.all_requests if not r.was_rejected])
CountServed(e) ==
    Cardinality({i \in 1..Len(e.all_requests) : ~e.all_requests[i].was_rejected})

\* A rational number num / den, kept as the pair of both.
Ratio(num, den) == <<num, den>>

\* sum of f[k] over the keys k
RECURSIVE SumOverLevels(_, _)
SumOverLevels(f, keys) ==
    IF keys = {} THEN 0
    ELSE LET k == CHOOSE x \in keys : TRUE
         IN  f[k] + SumOverLevels(f, keys \ {k})

\* sum(...) of a list
RECURSIVE Sum(_)
Sum(list) == IF list = <<>> THEN 0 ELSE Head(list) + Sum(Tail(list))

\* num / den if the list the mean is taken over is non-empty, else 0.0
MeanOf(list) == IF list # <<>> THEN Ratio(Sum(list), Len(list)) ELSE Ratio(0, 1)

\* Mutant of QueueLevels: the highest key is left out.
QueueLevels_short(n_channels, probabilities) ==
    (n_channels + 1)..(Cardinality(DOMAIN probabilities) - 2)

\* range(self.n_channels + 1, len(probabilities))
QueueLevels(n_channels, probabilities) ==
    (n_channels + 1)..(Cardinality(DOMAIN probabilities) - 1)

\* sum((i - n_channels) * probabilities.get(i, 0) ...) times T
QueueLengthSum(n_channels, state_history, levels) ==
    SumOverLevels([i \in levels |->
                    (i - n_channels)
                    * (IF i \in DOMAIN state_history THEN state_history[i] ELSE 0)],
                  levels)

\* [r.get_wait_time() for r in self.all_requests
\*      if not r.was_rejected and r.get_wait_time() > 0]
WaitTimes(e) ==
    LET Kept(r) == ~r.was_rejected /\ get_wait_time(r) > 0
        kept == SelectSeq(e.all_requests, Kept)
    IN  [k \in 1..Len(kept) |-> get_wait_time(kept[k])]

\* range(self.n_channels + 1)
BusyLevels(n_channels) == 0..n_channels

\* sum(i * probabilities.get(i, 0) for i in range(self.n_channels + 1))
\* times T
BusyChannelsSum(state_history, levels) ==
    SumOverLevels([i \in levels |->
                    i * (IF i \in DOMAIN state_history
                         THEN state_history[i] ELSE 0)],
                  levels)

\* [r.get_system_time() for r in self.all_requests if not r.was_rejected]
SystemTimes(e) ==
    LET Kept(r) == ~r.was_rejected
        kept == SelectSeq(e.all_requests, Kept)
    IN  [k \in 1..Len(kept) |-> get_system_time(kept[k])]

_calculate_statistics(e, T) ==
    LET N == Len(e.all_requests)
        N_served == CountServed(e)
        N_rejected == Len(e.rejected_requests)
        p_rejection == IF N > 0 THEN Ratio(N_rejected, N) ELSE Ratio(0, 1)
        \* 1.0 - p_rejection
        relative_throughput == Ratio(p_rejection[2] - p_rejection[1], p_rejection[2])
    IN  IF T = 0
        THEN [e EXCEPT !.pc = "error"]    \* duration / T: ZeroDivisionError
        ELSE [e EXCEPT !.pc = "done",
                 !.stats =
                   [T |-> T,
                    N_arrivals |-> N,
                    N_served |-> N_served,
                    N_rejected |-> N_rejected,
                    probabilities |->
                        [state \in DOMAIN e.state_history |->
                            Ratio(e.state_history[state], T)],
                    lambda_avg |-> Ratio(N, T),
                    p_rejection |-> p_rejection,
                    relative_throughput |-> relative_throughput,
                    absolute_throughput |->
                        Ratio(N * relative_throughput[1], T * relative_throughput[2]),
                    avg_busy_channels |->
                        Ratio(BusyChannelsSum(e.state_history,
                                  BusyLevels(e.n_channels)), T),
                    avg_queue_length |->
                        Ratio(QueueLengthSum(e.n_channels, e.state_history,
                                  QueueLevels(e.n_channels, e.state_history)), T),
                    avg_wait_time |-> MeanOf(WaitTimes(e)),
                    avg_system_time |-> MeanOf(SystemTimes(e))]]

\* state_history[state] += duration, creating the key when it is missing
AddDuration(state_history, state, duration) ==
    [k \in DOMAIN state_history \cup {state} |->
        (IF k \in DOMAIN state_history THEN state_history[k] ELSE 0)
        + (IF k = state THEN duration ELSE 0)]

\* Mutant of RunStart: the event queue, the request counter and the request
\* lists of the earlier realization are kept.
RunStart_keeps_events(e, g, T) ==
    LET system == QueueSystem(e.n_channels, e.m_queue)
        e1 == [e EXCEPT !.pc = "running", !.runs = e.runs + 1, !.rng0 = g,
                        !.T = T, !.stats = <<>>,
                        !.channels = system.channels, !.queue = system.queue,
                        !.current_time = system.current_time,
                        !.state_history = system.state_history,
                        !.last_state_time = 0, !.last_state = 0,
                        !.visited = {get_state(system)},
                        !.queue_integral = 0,
                        !.busy_integral = 0]
    IN  _schedule_arrival(e1, g, 0)

\* Mutant of RunStart: the random source is seeded again with the seed of
\* the engine.
RunStart_reseeds(e, g, T) ==
    LET system == QueueSystem(e.n_channels, e.m_queue)
        e1 == [e EXCEPT !.pc = "running", !.runs = e.runs + 1,
                        !.rng0 = RandomGeneratorInit(g, e.seed),
                        !.T = T, !.stats = <<>>,
                        !.channels = system.channels, !.queue = system.queue,
                        !.current_time = system.current_time,
                        !.state_history = system.state_history,
                        !.heap = <<>>, !.request_counter = 0,
                        !.all_requests = <<>>, !.rejected_requests = <<>>,
                        !.last_state_time = 0, !.last_state = 0,
                        !.visited = {get_state(system)},
                        !.queue_integral = 0,
                        !.busy_integral = 0]
    IN  _schedule_arrival(e1, RandomGeneratorInit(g, e.seed), 0)

\* run_single_realization up to the first test of the loop condition
RunStart(e, g, T) ==
    LET system == QueueSystem(e.n_channels, e.m_queue)
        e1 == [e EXCEPT !.pc = "running", !.runs = e.runs + 1, !.rng0 = g,
                        !.T = T, !.stats = <<>>,
                        !.channels = system.channels, !.queue = system.queue,
                        !.current_time = system.current_time,
                        !.state_history = system.state_history,
                        !.heap = <<>>, !.request_counter = 0,
                        !.all_requests = <<>>, !.rejected_requests = <<>>,
                        !.last_state_time = 0, !.last_state = 0,
                        !.visited = {get_state(system)},
                        !.queue_integral = 0,
                        !.busy_integral = 0]
    IN  _schedule_arrival(e1, g, 0)

\* Mutant of RunFinish: the time after the last event is not accounted.
RunFinish_no_remainder(e) == _calculate_statistics(e, e.T)

\* The code after the loop of run_single_realization
RunFinish(e) ==
    LET remaining_time == e.T - e.last_state_time
        e1 == IF remaining_time > 0
              THEN [e EXCEPT !.state_history =
                       AddDuration(e.state_history, e.last_state, remaining_time),
                             !.queue_integral =
                                 @ + get_queue_length(e) * remaining_time,
                             !.busy_integral =
                                 @ + get_busy_channels(e) * remaining_time]
              ELSE e
    IN  _calculate_statistics(e1, e.T)

\* Mutant of BeyondHorizon: no event is ever beyond the horizon.
BeyondHorizon_never(event, T) == FALSE

\* Mutant of BeyondHorizon: the event at exactly T is cut off too.
BeyondHorizon_inclusive(event, T) == event.time >= T

\* if event.time > T: break
BeyondHorizon(event, T) == event.time > T

\* One iteration of the loop of run_single_realization; the iteration that
\* leaves the loop also runs the code after it.
LoopStep(e, g) ==
    LET popped == HeapPop(e.heap)
        event == popped.item
        e1 == [e EXCEPT !.heap = popped.heap]
        e2 == [e1 EXCEPT !.state_history =
                  AddDuration(e1.state_history, e1.last_state,
                              event.time - e1.last_state_time),
                         !.queue_integral =
                             @ + get_queue_length(e1)
                                 * (event.time - e1.last_state_time),
                         !.busy_integral =
                             @ + get_busy_channels(e1)
                                 * (event.time - e1.last_state_time)]
        h == IF event.event_type = "ARRIVAL"
             THEN _handle_arrival(e2, g, event.time)
             ELSE [e |-> _handle_service_end(e2, event.time, event.request_id,
                                             event.channel_id),
                   rng |-> g]
    IN  IF e.heap = <<>> THEN [e |-> RunFinish(e), rng |-> g]
        ELSE IF BeyondHorizon(event, e.T) THEN [e |-> RunFinish(e1), rng |-> g]
        ELSE IF h.e.pc = "error" THEN h
        ELSE [e |-> [h.e EXCEPT !.last_state = get_state(h.e),
                                !.last_state_time = event.time,
                                !.visited = @ \cup {get_state(h.e)}],
              rng |-> h.rng]

\* The realization run to its end with no other user of the random source.
RECURSIVE RunToEnd(_, _)
RunToEnd(e, g) ==
    IF e.pc # "running" THEN e
    ELSE RunToEnd(LoopStep(e, g).e, LoopStep(e, g).rng)

RunAlone(e, g, T) == RunToEnd(RunStart(e, g, T).e, RunStart(e, g, T).rng)

(* ------------------------------ actions -------------------------------- *)
\* The analysis objects before anything is made of them.
NoAggregate == [made |-> FALSE]
NoTheory == [made |-> FALSE]
NoValidation == [made |-> FALSE]

\* Nothing has been called yet on the queue under test.  `ret` holds the
\* returned event, if the operation returned one.
NoOperation == [op |-> "none", ret |-> <<>>]

\* engine = SimulationEngine(n_channels, m_queue, lambda_param, mu_param,
\* seed=seed) for some arguments
Construct(i) ==
    /\ eng[i].pc = "absent"
    /\ \E n_channels \in 1..MaxChannels, m_queue \in {None} \cup 0..MaxQueue,
          lambda_param \in 0..MaxRate, mu_param \in 0..MaxRate,
          seed \in {None} \cup 0..MaxSeed :
            /\ rng' = RandomGeneratorInit(rng, seed)
            /\ eng' = [eng EXCEPT ![i] =
                          NewEngine(n_channels, m_queue, lambda_param, mu_param, seed)]
    /\ UNCHANGED <<qheap, qcount, qpopped, qsince, qerr, qlast, gen,
                 agg, theory, validation>>

\* engine.run_single_realization(T) is called, for some T of horizons
Run(i, horizons) ==
    /\ eng[i].pc \in {"constructed", "done", "error"}
    /\ eng[i].runs < MaxRuns
    /\ \E T \in horizons :
          LET r == RunStart(eng[i], rng, T)
          IN  /\ eng' = [eng EXCEPT ![i] = r.e]
              /\ rng' = r.rng
    /\ UNCHANGED <<qheap, qcount, qpopped, qsince, qerr, qlast, gen,
                 agg, theory, validation>>

\* the realization running on engine i executes one loop iteration
Step(i) ==
    /\ eng[i].pc = "running"
    /\ LET r == LoopStep(eng[i], rng)
       IN  /\ eng' = [eng EXCEPT ![i] = r.e]
           /\ rng' = r.rng
    /\ UNCHANGED <<qheap, qcount, qpopped, qsince, qerr, qlast, gen,
                 agg, theory, validation>>

InitEngines(ids) ==
    /\ rng \in 0..(RngMod - 1)
    /\ eng = [i \in ids |-> AbsentEngine]
    /\ qheap = <<>>
    /\ qcount = 0
    /\ qpopped = <<>>
    /\ qsince = 0
    /\ qerr = FALSE
    /\ qlast = NoOperation
    /\ agg = NoAggregate
    /\ theory = NoTheory
    /\ validation = NoValidation
    /\ gen = <<>>

Init == InitEngines({1})

Next ==
    \/ \E i \in {1} : Construct(i)
    \/ \E i \in {1} : Run(i, 0..MaxT)
    \/ \E i \in {1} : Step(i)

Spec == Init /\ [][Next]_vars

\* Two engines in one process, both constructed (engine 1 first) before
\* either runs; their realizations are interleaved at the iterations of
\* their event loops.
InitTwo ==
    \E g \in 0..(RngMod - 1), mu1 \in 1..MaxRate, mu2 \in 1..MaxRate,
       seed1 \in {None, 0}, seed2 \in {None, 0} :
        /\ rng = RandomGeneratorInit(RandomGeneratorInit(g, seed1), seed2)
        /\ eng = (1 :> NewEngine(1, None, 1, mu1, seed1))
                  @@ (2 :> NewEngine(1, None, 1, mu2, seed2))
        /\ qheap = <<>>
        /\ qcount = 0
        /\ qpopped = <<>>
        /\ qsince = 0
        /\ qerr = FALSE
        /\ qlast = NoOperation
        /\ agg = NoAggregate
        /\ theory = NoTheory
        /\ validation = NoValidation
        /\ gen = <<>>

NextTwo ==
    \/ \E i \in {1, 2} : Run(i, {MaxT \div 2})
    \/ \E i \in {1, 2} : Step(i)

SpecTwo == InitTwo /\ [][NextTwo]_vars

\* Consecutive realizations on one engine: run_single_realization is
\* called again after the earlier call has returned or raised, up to
\* MaxRuns + 1 calls.
Rerun(i, horizons) ==
    /\ eng[i].pc \in {"constructed", "done", "error"}
    /\ eng[i].runs <= MaxRuns
    /\ \E T \in horizons :
          LET r == RunStart(eng[i], rng, T)
          IN  /\ eng' = [eng EXCEPT ![i] = r.e]
              /\ rng' = r.rng
    /\ UNCHANGED <<qheap, qcount, qpopped, qsince, qerr, qlast, gen,
                 agg, theory, validation>>

\* One engine just constructed, with a service rate that is valid or 0
\* (every arrival within the horizon then raises ValueError).
InitRerun ==
    \E g \in 0..(RngMod - 1), n_channels \in {1, MaxChannels},
       m_queue \in {None, 0}, mu_param \in {0, 1}, seed \in {None, 0} :
        /\ rng = RandomGeneratorInit(g, seed)
        /\ eng = (1 :> NewEngine(n_channels, m_queue, 1, mu_param, seed))
        /\ qheap = <<>>
        /\ qcount = 0
        /\ qpopped = <<>>
        /\ qsince = 0
        /\ qerr = FALSE
        /\ qlast = NoOperation
        /\ agg = NoAggregate
        /\ theory = NoTheory
        /\ validation = NoValidation
        /\ gen = <<>>

NextRerun ==
    \/ \E i \in {1} : Rerun(i, {0, MaxT \div 2})
    \/ \E i \in {1} : Step(i)

SpecRerun == InitRerun /\ [][NextRerun]_vars

\* One realization whose samples are whatever random.random() gives with
\* the module-level source in any state, as long as every inter-arrival
\* interval comes out positive in ticks (bounded below by one tick).
\* The ARRIVAL event of `after` is the one scheduled last: it lies after
\* the time `now` at which it was scheduled exactly if its interval is
\* positive.
PositiveInterval(after, now) ==
    \A k \in DOMAIN after.heap :
        after.heap[k].event_type = "ARRIVAL" => after.heap[k].time > now

\* engine.run_single_realization(T) is called, for some T of horizons
LiveRun(i, horizons) ==
    /\ eng[i].pc = "constructed"
    /\ \E T \in horizons, g \in 0..(RngMod - 1) :
          LET r == RunStart(eng[i], g, T)
          IN  /\ PositiveInterval(r.e, 0)
              /\ eng' = [eng EXCEPT ![i] = r.e]
              /\ rng' = r.rng
    /\ UNCHANGED <<qheap, qcount, qpopped, qsince, qerr, qlast, gen,
                 agg, theory, validation>>

\* the realization running on engine i executes one loop iteration; no
\* more than MaxArrivals requests are followed
LiveStep(i) ==
    /\ eng[i].pc = "running"
    /\ eng[i].request_counter < MaxArrivals
    /\ \E g \in 0..(RngMod - 1) :
          LET r == LoopStep(eng[i], g)
              event == HeapPop(eng[i].heap).item
          IN  /\ (r.e.pc = "running" /\ event.event_type = "ARRIVAL")
                    => PositiveInterval(r.e, event.time)
              /\ eng' = [eng EXCEPT ![i] = r.e]
              /\ rng' = r.rng
    /\ UNCHANGED <<qheap, qcount, qpopped, qsince, qerr, qlast, gen,
                 agg, theory, validation>>

InitLive ==
    \E n_channels \in {1}, m_queue \in {None, 0},
       lambda_param \in {MaxRate}, mu_param \in {1} :
        /\ rng = 0
        /\ eng = (1 :> NewEngine(n_channels, m_queue, lambda_param, mu_param, None))
        /\ qheap = <<>>
        /\ qcount = 0
        /\ qpopped = <<>>
        /\ qsince = 0
        /\ qerr = FALSE
        /\ qlast = NoOperation
        /\ agg = NoAggregate
        /\ theory = NoTheory
        /\ validation = NoValidation
        /\ gen = <<>>

NextLive ==
    \/ \E i \in {1} : LiveRun(i, {0, MaxT \div 3})
    \/ \E i \in {1} : LiveStep(i)

\* ENABLED <<LiveStep(i)>>_vars written out: an iteration pops an event, so
\* it changes the engine, and the clamped sample R = 0 always gives a
\* positive interval.
LiveStepEnabled(i) ==
    eng[i].pc = "running" /\ eng[i].request_counter < MaxArrivals

\* The event loop runs in one thread that is never suspended for ever: an
\* iteration that can be executed is executed.  This is WF_vars(LiveStep(1))
\* with its ENABLED replaced by LiveStepEnabled(1).
LoopFairness ==
    []<>(~LiveStepEnabled(1)) \/ []<><<LiveStep(1)>>_vars

SpecLive == InitLive /\ [][NextLive]_vars /\ LoopFairness

(* ----------------------- EventQueue under test ------------------------- *)
\* Mutant of HeapPeek: the last slot of the heap in place of its root.
HeapPeek_last(heap) == heap[Len(heap)]

\* self._heap[0] in EventQueue.peek
HeapPeek(heap) == heap[1]

\* EventQueue.push of an event with the given time.  The caller numbers the
\* events it creates through request_id, as test_event_queue does.
Push(time) ==
    /\ qcount < MaxPushes
    /\ qheap' = HeapPush(qheap, Event(time, "ARRIVAL", qcount, None))
    /\ qcount' = qcount + 1
    /\ qsince' = 0
    /\ qerr' = FALSE
    /\ qlast' = [op |-> "push", ret |-> <<>>]
    /\ UNCHANGED <<rng, eng, qpopped, gen,
                 agg, theory, validation>>

\* EventQueue.pop on a non-empty queue
Pop ==
    /\ qheap # <<>>
    /\ qheap' = HeapPop(qheap).heap
    /\ qpopped' = Append(qpopped, HeapPop(qheap).item)
    /\ qsince' = qsince + 1
    /\ qerr' = FALSE
    /\ qlast' = [op |-> "pop", ret |-> <<HeapPop(qheap).item>>]
    /\ UNCHANGED <<rng, eng, qcount, gen,
                 agg, theory, validation>>

\* EventQueue.pop on an empty queue raises IndexError.
PopEmpty ==
    /\ qheap = <<>>
    /\ qerr' = TRUE
    /\ qlast' = [op |-> "pop", ret |-> <<>>]
    /\ UNCHANGED <<rng, eng, qheap, qcount, qpopped, qsince, gen,
                 agg, theory, validation>>

\* EventQueue.peek on a non-empty queue returns the root of the heap.
Peek ==
    /\ qheap # <<>>
    /\ qerr' = FALSE
    /\ qlast' = [op |-> "peek", ret |-> <<HeapPeek(qheap)>>]
    /\ UNCHANGED <<rng, eng, qheap, qcount, qpopped, qsince, gen,
                 agg, theory, validation>>

\* EventQueue.peek on an empty queue raises IndexError.
PeekEmpty ==
    /\ qheap = <<>>
    /\ qerr' = TRUE
    /\ qlast' = [op |-> "peek", ret |-> <<>>]
    /\ UNCHANGED <<rng, eng, qheap, qcount, qpopped, qsince, gen,
                 agg, theory, validation>>

InitQueue ==
    /\ rng = 0
    /\ eng = <<>>
    /\ qheap = <<>>
    /\ qcount = 0
    /\ qpopped = <<>>
    /\ qsince = 0
    /\ qerr = FALSE
    /\ qlast = NoOperation
    /\ agg = NoAggregate
    /\ theory = NoTheory
    /\ validation = NoValidation
    /\ gen = <<>>

NextQueue ==
    \/ \E time \in 0..MaxTime : Push(time)
    \/ Pop
    \/ PopEmpty
    \/ Peek
    \/ PeekEmpty

SpecQueue == InitQueue /\ [][NextQueue]_vars

(* -------------------- RandomGenerator under test ----------------------- *)
\* Parameters handed to the sampling methods: 0 is invalid, MaxParam valid.
Params == {0, MaxParam}

ExponentialCalls ==
    {[dist_type |-> "EXPONENTIAL", kwargs |-> [lambda_param |-> p]] :
        p \in Params}

SampleCalls ==
    ExponentialCalls
    \cup {[dist_type |-> "WEIBULL", kwargs |-> [a |-> p, b |-> q]] :
            p \in Params, q \in Params}
    \cup {[dist_type |-> "GAMMA", kwargs |-> [lambda_param |-> p, eta |-> q]] :
            p \in Params, q \in Params}
    \cup {[dist_type |-> "NORMAL", kwargs |-> [m |-> p, sigma |-> q]] :
            p \in Params, q \in Params}

AbsentGenerator == [made |-> FALSE, seed |-> None, calls |-> <<>>, outs |-> <<>>]

\* RandomGenerator(seed): seeds the module-level source unless seed is None.
\* `calls` and `outs` record what the caller asked of this instance and got.
Make(i) ==
    /\ ~gen[i].made
    /\ \E seed \in {None} \cup (0..MaxSeed) :
        /\ rng' = RandomGeneratorInit(rng, seed)
        /\ gen' = [gen EXCEPT ![i] = [made |-> TRUE, seed |-> seed,
                                      calls |-> <<>>, outs |-> <<>>]]
    /\ UNCHANGED <<eng, qheap, qcount, qpopped, qsince, qerr, qlast,
                 agg, theory, validation>>

\* One call of a sampling method on instance i; a raised ValueError is
\* recorded as an output that is not ok.
Sample(i, calls) ==
    /\ gen[i].made
    /\ Len(gen[i].calls) < MaxCalls
    /\ \E c \in calls :
        LET r == generate(rng, c.dist_type, c.kwargs)
        IN  /\ rng' = r.rng
            /\ gen' = [gen EXCEPT
                         ![i].calls = Append(@, c),
                         ![i].outs = Append(@, [ok |-> r.ok, val |-> r.val])]
    /\ UNCHANGED <<eng, qheap, qcount, qpopped, qsince, qerr, qlast,
                 agg, theory, validation>>

InitGenerators(ids) ==
    /\ rng \in 0..(RngMod - 1)
    /\ eng = <<>>
    /\ qheap = <<>>
    /\ qcount = 0
    /\ qpopped = <<>>
    /\ qsince = 0
    /\ qerr = FALSE
    /\ qlast = NoOperation
    /\ agg = NoAggregate
    /\ theory = NoTheory
    /\ validation = NoValidation
    /\ gen = [i \in ids |-> AbsentGenerator]

InitGen == InitGenerators({1})

NextGen ==
    \/ \E i \in {1} : Make(i)
    \/ \E i \in {1} : Sample(i, SampleCalls)

SpecGen == InitGen /\ [][NextGen]_vars

\* Two instances in one process, constructed and called in any order.
InitGenTwo == InitGenerators({1, 2})

NextGenTwo ==
    \/ \E i \in {1, 2} : Make(i)
    \/ \E i \in {1, 2} : Sample(i, ExponentialCalls)

SpecGenTwo == InitGenTwo /\ [][NextGenTwo]_vars

(* ------------------- MultiRealizationStatistics ------------------------ *)
\* [real.<field> for real in self.realizations]
FieldOf(realizations, field) ==
    [k \in 1..Len(realizations) |-> realizations[k][field]]

Squares(values) == [k \in 1..Len(values) |-> values[k] * values[k]]

\* statistics.mean: the exact sum divided by the number of values
Mean(values) == Ratio(Sum(values), Len(values))

\* statistics.stdev when there are two values or more, else 0.0.  The model
\* keeps the sample variance, the square of what stdev returns.
StdevSquared(values) ==
    IF Len(values) > 1
    THEN Ratio(Len(values) * Sum(Squares(values)) - Sum(values) * Sum(values),
               Len(values) * (Len(values) - 1))
    ELSE Ratio(0, 1)

\* Mutant of AllStates: only the levels of the first realization.
AllStates_first_only(realizations) == DOMAIN realizations[1].probabilities

\* all_states: the union of the keys of every realization's probabilities
AllStates(realizations) ==
    UNION {DOMAIN realizations[k].probabilities : k \in 1..Len(realizations)}

\* Mutant of StateProbs: a realization without the level is left out.
StateProbs_present_only(realizations, state) ==
    LET Has(real) == state \in DOMAIN real.probabilities
    IN  FieldOf(FieldOf(SelectSeq(realizations, Has), "probabilities"), state)

\* [real.probabilities.get(state, 0.0) for real in self.realizations]
StateProbs(realizations, state) ==
    [k \in 1..Len(realizations) |->
        IF state \in DOMAIN realizations[k].probabilities
        THEN realizations[k].probabilities[state]
        ELSE 0]

\* The scalar metrics compute_statistics aggregates: the field read from
\* each realization, and the suffix of the avg_ / std_ attributes written.
ScalarMetrics ==
    {<<"lambda_avg", "lambda">>, <<"mu_avg", "mu">>,
     <<"p_rejection", "p_rejection">>,
     <<"absolute_throughput", "absolute_throughput">>,
     <<"avg_queue_length", "queue_length">>,
     <<"avg_wait_time", "wait_time">>,
     <<"avg_system_time", "system_time">>,
     <<"avg_busy_channels", "busy_channels">>}

ReadField(name) == (CHOOSE m \in ScalarMetrics : m[2] = name)[1]

\* MultiRealizationStatistics(N_realizations, realizations): the avg_ and
\* std_ attributes start at their defaults.  avg and std map the suffix of
\* a scalar attribute to its value; computed tells that compute_statistics
\* has run on the list as it is now.
MultiRealizationStatistics(realizations) ==
    [made |-> TRUE, computed |-> FALSE,
     N_realizations |-> Len(realizations), realizations |-> realizations,
     avg_probabilities |-> <<>>, std_probabilities |-> <<>>,
     avg |-> [m \in {x[2] : x \in ScalarMetrics} |-> Ratio(0, 1)],
     std |-> [m \in {x[2] : x \in ScalarMetrics} |-> Ratio(0, 1)]]

\* Entries written into a dict that keeps the entries it had.
Updated(dict, entries) ==
    [k \in DOMAIN dict \cup DOMAIN entries |->
        IF k \in DOMAIN entries THEN entries[k] ELSE dict[k]]

\* MultiRealizationStatistics.compute_statistics
compute_statistics(m) ==
    IF m.realizations = <<>>
    THEN m
    ELSE [m EXCEPT
            !.computed = TRUE,
            !.avg_probabilities =
                Updated(@, [state \in AllStates(m.realizations) |->
                               Mean(StateProbs(m.realizations, state))]),
            !.std_probabilities =
                Updated(@, [state \in AllStates(m.realizations) |->
                               StdevSquared(StateProbs(m.realizations, state))]),
            !.avg = [name \in DOMAIN m.avg |->
                        Mean(FieldOf(m.realizations, ReadField(name)))],
            !.std = [name \in DOMAIN m.std |->
                        StdevSquared(FieldOf(m.realizations, ReadField(name)))]]

\* A RealizationStatistics with the given state probabilities; its scalar
\* metrics take the values x and MaxMetric - x in turn.
RealizationStatistics(probabilities, x) ==
    [probabilities |-> probabilities,
     lambda_avg |-> x, mu_avg |-> MaxMetric - x,
     p_rejection |-> x, absolute_throughput |-> MaxMetric - x,
     avg_queue_length |-> x, avg_wait_time |-> MaxMetric - x,
     avg_system_time |-> x, avg_busy_channels |-> MaxMetric - x]

\* Realizations that stayed at level 0 and realizations that reached
\* MaxLevel, with metric values 0 and MaxMetric.
RealizationInputs ==
    {RealizationStatistics(probabilities, x) :
        probabilities \in [{0} -> {0, MaxMetric}]
                          \cup [0..MaxLevel -> {0, MaxMetric}],
        x \in {0, MaxMetric}}

\* The caller builds the list of realizations, one realization at a time.
AddRealization(inputs) ==
    /\ ~validation.made
    /\ IF agg.made THEN Len(agg.realizations) < MaxRealizations ELSE TRUE
    /\ \E real \in inputs :
        agg' = IF agg.made
               THEN [agg EXCEPT !.realizations = Append(@, real),
                                !.N_realizations = @ + 1,
                                !.computed = FALSE]
               ELSE MultiRealizationStatistics(<<real>>)
    /\ UNCHANGED <<rng, eng, qheap, qcount, qpopped, qsince, qerr, qlast, gen,
                   theory, validation>>

\* A MultiRealizationStatistics made of an empty list.
MakeEmptyAggregate ==
    /\ ~agg.made
    /\ agg' = MultiRealizationStatistics(<<>>)
    /\ UNCHANGED <<rng, eng, qheap, qcount, qpopped, qsince, qerr, qlast, gen,
                   theory, validation>>

ComputeStatistics ==
    /\ agg.made
    /\ ~validation.made
    /\ agg' = compute_statistics(agg)
    /\ UNCHANGED <<rng, eng, qheap, qcount, qpopped, qsince, qerr, qlast, gen,
                   theory, validation>>

InitAnalysis ==
    /\ rng = 0
    /\ eng = <<>>
    /\ qheap = <<>>
    /\ qcount = 0
    /\ qpopped = <<>>
    /\ qsince = 0
    /\ qerr = FALSE
    /\ qlast = NoOperation
    /\ gen = <<>>
    /\ agg = NoAggregate
    /\ theory = NoTheory
    /\ validation = NoValidation

NextAgg ==
    \/ AddRealization(RealizationInputs)
    \/ MakeEmptyAggregate
    \/ ComputeStatistics

SpecAgg == InitAnalysis /\ [][NextAgg]_vars

(* ------------------------ MarkovianQueueTheory ------------------------- *)
\* The float arithmetic of validation.py is modelled by exact rational
\* arithmetic on pairs <<numerator, denominator>> in lowest terms with a
\* positive denominator.
RECURSIVE Gcd(_, _)
Gcd(a, b) == IF b = 0 THEN a ELSE Gcd(b, a % b)

Abs(a) == IF a < 0 THEN -a ELSE a

Q(num, den) ==
    LET g == Gcd(Abs(num), Abs(den))
        sign == IF den < 0 THEN -1 ELSE 1
    IN  <<sign * (num \div g), sign * (den \div g)>>

\* Common factors are cancelled before multiplying, which keeps the
\* intermediate products small.
QAdd(x, y) ==
    LET g == Gcd(x[2], y[2])
    IN  Q(x[1] * (y[2] \div g) + y[1] * (x[2] \div g), (x[2] \div g) * y[2])
QSub(x, y) == QAdd(x, <<-y[1], y[2]>>)
QMul(x, y) ==
    LET g1 == Gcd(Abs(x[1]), y[2])
        g2 == Gcd(Abs(y[1]), x[2])
    IN  Q((x[1] \div g1) * (y[1] \div g2), (x[2] \div g2) * (y[2] \div g1))
QDiv(x, y) ==
    LET g1 == Gcd(Abs(x[1]), Abs(y[1]))
        g2 == Gcd(x[2], y[2])
    IN  Q((x[1] \div g1) * (y[2] \div g2), (x[2] \div g2) * (y[1] \div g1))
QAbs(x) == <<Abs(x[1]), x[2]>>
QPow(x, k) == <<Pow(x[1], k), Pow(x[2], k)>>
QLeq(x, y) ==
    LET g == Gcd(x[2], y[2])
    IN  x[1] * (y[2] \div g) <= y[1] * (x[2] \div g)
QLess(x, y) ==
    LET g == Gcd(x[2], y[2])
    IN  x[1] * (y[2] \div g) < y[1] * (x[2] \div g)
QMax(x, y) == IF QLeq(x, y) THEN y ELSE x

\* Mutant of Unstable: the boundary rho = 1 is taken as stable.
Unstable_strict(rho) == QLess(Q(1, 1), rho)

\* if rho >= 1.0
Unstable(rho) == QLeq(Q(1, 1), rho)

\* The dictionary returned for an unstable system: no metric in it.
UnstableResult == [stable |-> FALSE, error |-> TRUE]

\* The states whose probabilities are tabulated.  The code tabulates
\* range(21), or range(min(21, n_channels + 10)); the model keeps the first
\* MaxState + 1 of them.
TabulatedStates == 0..MaxState

\* Mutant of calculate_mm1_characteristics: the mean queue length is rho ** 2,
\* not divided by 1 - rho.
calculate_mm1_characteristics_undivided(lambda_val, mu_val) ==
    LET rho == Q(lambda_val, mu_val)
        one == Q(1, 1)
        mu == Q(mu_val, 1)
        p0 == QSub(one, rho)
    IN  IF Unstable(rho)
        THEN UnstableResult
        ELSE [stable |-> TRUE,
              rho |-> rho,
              p0 |-> p0,
              avg_queue_length |-> QPow(rho, 2),
              avg_wait_time |-> QDiv(rho, QMul(mu, QSub(one, rho))),
              avg_system_time |-> QDiv(one, QMul(mu, QSub(one, rho))),
              avg_in_system |-> QDiv(rho, QSub(one, rho)),
              probabilities |-> [k \in TabulatedStates |-> QMul(p0, QPow(rho, k))]]

\* MarkovianQueueTheory.calculate_mm1_characteristics
calculate_mm1_characteristics(lambda_val, mu_val) ==
    LET rho == Q(lambda_val, mu_val)
        one == Q(1, 1)
        mu == Q(mu_val, 1)
        p0 == QSub(one, rho)
    IN  IF Unstable(rho)
        THEN UnstableResult
        ELSE [stable |-> TRUE,
              rho |-> rho,
              p0 |-> p0,
              avg_queue_length |-> QDiv(QPow(rho, 2), QSub(one, rho)),
              avg_wait_time |-> QDiv(rho, QMul(mu, QSub(one, rho))),
              avg_system_time |-> QDiv(one, QMul(mu, QSub(one, rho))),
              avg_in_system |-> QDiv(rho, QSub(one, rho)),
              probabilities |-> [k \in TabulatedStates |-> QMul(p0, QPow(rho, k))]]

\* The loop `for k in range(1, n + 1): factorial_n *= k; p0_inv += a ** k /
\* factorial_n`, from iteration k on.
RECURSIVE P0InvLoop(_, _, _, _, _)
P0InvLoop(a, k, n_channels, factorial_n, p0_inv) ==
    IF k > n_channels
    THEN [factorial_n |-> factorial_n, p0_inv |-> p0_inv]
    ELSE P0InvLoop(a, k + 1, n_channels, factorial_n * k,
                   QAdd(p0_inv, QDiv(QPow(a, k), Q(factorial_n * k, 1))))

RECURSIVE Factorial(_)
Factorial(k) == IF k = 0 THEN 1 ELSE k * Factorial(k - 1)

\* MarkovianQueueTheory.calculate_mmn_characteristics
calculate_mmn_characteristics(lambda_val, mu_val, n_channels) ==
    LET rho == Q(lambda_val, n_channels * mu_val)
        one == Q(1, 1)
        a == Q(lambda_val, mu_val)
        loop == P0InvLoop(a, 1, n_channels, 1, Q(0, 1))
        factorial_n == loop.factorial_n * n_channels
        erlang_c_numerator == QDiv(QPow(a, n_channels), Q(factorial_n, 1))
        erlang_c_denominator == QSub(one, rho)
        p0_inv == QAdd(QAdd(loop.p0_inv,
                            QDiv(erlang_c_numerator, erlang_c_denominator)),
                       one)
        p0 == QDiv(one, p0_inv)
        pw == QDiv(QMul(erlang_c_numerator, p0), erlang_c_denominator)
        avg_queue_length == QDiv(QMul(pw, rho), QSub(one, rho))
        avg_wait_time == QDiv(avg_queue_length, Q(lambda_val, 1))
        avg_system_time == QAdd(avg_wait_time, Q(1, mu_val))
    IN  IF Unstable(rho)
        THEN UnstableResult
        ELSE [stable |-> TRUE,
              rho |-> rho,
              p0 |-> p0,
              pw |-> pw,
              n_channels |-> n_channels,
              avg_queue_length |-> avg_queue_length,
              avg_wait_time |-> avg_wait_time,
              avg_system_time |-> avg_system_time,
              avg_in_system |-> QMul(Q(lambda_val, 1), avg_system_time),
              probabilities |->
                [k \in TabulatedStates |->
                    IF k < n_channels
                    THEN QDiv(QMul(p0, QPow(a, k)), Q(Factorial(k), 1))
                    ELSE QDiv(QMul(p0, QPow(a, k)),
                              Q(Factorial(n_channels)
                                * Pow(n_channels, k - n_channels), 1))]]

\* A call of calculate_mm1_characteristics
Mm1 ==
    /\ ~validation.made
    /\ \E lambda_val \in 1..(MaxRate * MaxChannels), mu_val \in 1..MaxRate :
        theory' = [made |-> TRUE, fn |-> "mm1",
                   lambda_val |-> lambda_val, mu_val |-> mu_val, n_channels |-> 1,
                   result |-> calculate_mm1_characteristics(lambda_val, mu_val)]
    /\ UNCHANGED <<rng, eng, qheap, qcount, qpopped, qsince, qerr, qlast, gen,
                   agg, validation>>

\* The rates of the validation scenario, lambda = 0.4 and mu = 0.5, counted
\* in tenths.
ScenarioLambda == 4
ScenarioMu == 5

\* calculate_mm1_characteristics(0.4, 0.5), the call the validation scenario
\* makes.  The rates are passed in tenths, which leaves rho and the mean
\* queue length as they are.
Mm1Scenario ==
    /\ ~validation.made
    /\ theory' = [made |-> TRUE, fn |-> "mm1",
                  lambda_val |-> ScenarioLambda, mu_val |-> ScenarioMu,
                  n_channels |-> 1,
                  result |-> calculate_mm1_characteristics(ScenarioLambda, ScenarioMu)]
    /\ UNCHANGED <<rng, eng, qheap, qcount, qpopped, qsince, qerr, qlast, gen,
                   agg, validation>>

\* A call of calculate_mmn_characteristics
Mmn ==
    /\ ~validation.made
    /\ \E lambda_val \in 1..(MaxRate * MaxChannels), mu_val \in 1..MaxRate,
          n_channels \in 1..MaxChannels :
        theory' = [made |-> TRUE, fn |-> "mmn",
                   lambda_val |-> lambda_val, mu_val |-> mu_val,
                   n_channels |-> n_channels,
                   result |-> calculate_mmn_characteristics(lambda_val, mu_val,
                                                            n_channels)]
    /\ UNCHANGED <<rng, eng, qheap, qcount, qpopped, qsince, qerr, qlast, gen,
                   agg, validation>>

\* A theoretical dictionary written by the caller, holding two of the
\* characteristics only, one of them 0.
Reference ==
    /\ ~validation.made
    /\ \E x \in {0, MaxMetric} :
        theory' = [made |-> TRUE, fn |-> "given",
                   result |-> [avg_queue_length |-> Q(x, 1),
                               avg_wait_time |-> Q(MaxMetric - x, 1)]]
    /\ UNCHANGED <<rng, eng, qheap, qcount, qpopped, qsince, qerr, qlast, gen,
                   agg, validation>>

(* -------------------------- validate_simulation ------------------------ *)
\* Mutant of ErrorOf: the absolute error whatever the theoretical value.
ErrorOf_absolute(sim_val, theory_val) == QAbs(QSub(sim_val, theory_val))

\* abs(sim - theory) / theory if theory > 0 else abs(sim - theory)
ErrorOf(sim_val, theory_val) ==
    IF QLess(Q(0, 1), theory_val)
    THEN QDiv(QAbs(QSub(sim_val, theory_val)), theory_val)
    ELSE QAbs(QSub(sim_val, theory_val))

\* The `characteristics` table: name, attribute of the simulated object
\* (None for rho), key of the theoretical dictionary.
Characteristics ==
    {<<"queue_length", "queue_length", "avg_queue_length">>,
     <<"wait_time", "wait_time", "avg_wait_time">>,
     <<"system_time", "system_time", "avg_system_time">>,
     <<"rho", "", "rho">>}

\* simulated.avg_probabilities.get(state, 0.0)
SimulatedProbability(simulated, state) ==
    IF simulated.computed /\ state \in DOMAIN simulated.avg_probabilities
    THEN simulated.avg_probabilities[state]
    ELSE Q(0, 1)

\* sim_val of one characteristic
SimulatedValue(simulated, theoretical, char) ==
    IF char[2] # ""
    THEN simulated.avg[char[2]]
    ELSE LET sim_lambda == simulated.avg["lambda"]
             sim_mu == simulated.avg["mu"]
             n == IF "n_channels" \in DOMAIN theoretical
                  THEN theoretical.n_channels ELSE 1
         IN  IF QLess(Q(0, 1), sim_mu)
             THEN QDiv(sim_lambda, QMul(Q(n, 1), sim_mu))
             ELSE Q(0, 1)

\* The keys of results.errors: <<"p", state>> for the key p_<state>, and
\* <<name, 0>> for a characteristic.
ErrorKeys(theoretical) ==
    (IF "probabilities" \in DOMAIN theoretical
     THEN {<<"p", state>> : state \in DOMAIN theoretical.probabilities}
     ELSE {})
    \cup {<<char[1], 0>> : char \in {c \in Characteristics :
                                        c[3] \in DOMAIN theoretical}}

\* max(results.max_error, error) taken over every error
RECURSIVE MaxError(_, _)
MaxError(errors, keys) ==
    IF keys = {} THEN Q(0, 1)
    ELSE LET k == CHOOSE x \in keys : TRUE
         IN  QMax(errors[k], MaxError(errors, keys \ {k}))

\* Mutant of validate_simulation: within_tolerance asks for one error within
\* epsilon where the code asks for all of them.
validate_simulation_any(simulated, theoretical, epsilon) ==
    LET errors ==
            [key \in ErrorKeys(theoretical) |->
                IF key[1] = "p"
                THEN ErrorOf(SimulatedProbability(simulated, key[2]),
                             theoretical.probabilities[key[2]])
                ELSE LET char == CHOOSE c \in Characteristics : c[1] = key[1]
                     IN  ErrorOf(SimulatedValue(simulated, theoretical, char),
                                 theoretical[char[3]])]
    IN  [results |->
            [errors |-> errors,
             max_error |-> MaxError(errors, DOMAIN errors),
             within_tolerance |->
                \E key \in DOMAIN errors : QLeq(errors[key], epsilon)],
         simulated |-> simulated,
         theoretical |-> theoretical]

\* validate_simulation: the ValidationResults it returns, and the two
\* arguments as the call leaves them.
validate_simulation(simulated, theoretical, epsilon) ==
    LET errors ==
            [key \in ErrorKeys(theoretical) |->
                IF key[1] = "p"
                THEN ErrorOf(SimulatedProbability(simulated, key[2]),
                             theoretical.probabilities[key[2]])
                ELSE LET char == CHOOSE c \in Characteristics : c[1] = key[1]
                     IN  ErrorOf(SimulatedValue(simulated, theoretical, char),
                                 theoretical[char[3]])]
    IN  [results |->
            [errors |-> errors,
             max_error |-> MaxError(errors, DOMAIN errors),
             within_tolerance |->
                \A key \in DOMAIN errors : QLeq(errors[key], epsilon)],
         simulated |-> simulated,
         theoretical |-> theoretical]

\* The tolerances passed as epsilon: multiples of one half.
Epsilons == {Q(k, 2) : k \in 0..MaxEpsilon}

Validate ==
    /\ agg.made
    /\ theory.made
    /\ ~validation.made
    /\ \E epsilon \in Epsilons :
        LET v == validate_simulation(agg, theory.result, epsilon)
        IN  /\ validation' = [made |-> TRUE, epsilon |-> epsilon,
                              results |-> v.results]
            /\ agg' = v.simulated
            /\ theory' = [theory EXCEPT !.result = v.theoretical]
    /\ UNCHANGED <<rng, eng, qheap, qcount, qpopped, qsince, qerr, qlast, gen>>

\* Realizations that were at every level with the same probability value.
ValidationInputs ==
    {RealizationStatistics([level \in 0..MaxLevel |-> x], x) : x \in {0, MaxMetric}}

NextValidation ==
    \/ Mm1
    \/ Mm1Scenario
    \/ Mmn
    \/ Reference
    \/ AddRealization(ValidationInputs)
    \/ ComputeStatistics
    \/ Validate

SpecValidation == InitAnalysis /\ [][NextValidation]_vars

(* ------------------------------ claims --------------------------------- *)
Engines == DOMAIN eng

RECURSIVE SumOver(_, _)
SumOver(f, keys) ==
    IF keys = {} THEN 0
    ELSE LET k == CHOOSE x \in keys : TRUE
         IN  f[k] + SumOver(f, keys \ {k})

SameConfiguration(e, f) ==
    /\ e.seed = f.seed
    /\ e.n_channels = f.n_channels
    /\ e.m_queue = f.m_queue
    /\ e.lambda_param = f.lambda_param
    /\ e.mu_param = f.mu_param

\* C1: two engines constructed with the same seed and configuration
\* return identical statistics from their first run_single_realization(T),
\* in whatever order the constructions and the runs are made.
C1_SameSeedSameStatistics ==
    \A i, j \in Engines :
        (/\ eng[i].pc = "done" /\ eng[j].pc = "done"
         /\ eng[i].runs = 1 /\ eng[j].runs = 1
         /\ eng[i].seed # None
         /\ SameConfiguration(eng[i], eng[j])
         /\ eng[i].T = eng[j].T)
        => eng[i].stats = eng[j].stats

\* C2: a realization returns the statistics it returns when it runs alone
\* from the random state it started with, whatever another realization
\* does in between its steps.
C2_RealizationsDoNotInterfere ==
    \A i \in Engines :
        eng[i].pc = "done" =>
            /\ RunAlone(eng[i], eng[i].rng0, eng[i].T).pc = "done"
            /\ eng[i].stats = RunAlone(eng[i], eng[i].rng0, eng[i].T).stats

LastPopped == qpopped[Len(qpopped)]

\* C3: every pop returns and removes an event of minimal time among those
\* held; pops made in a row come out in non-decreasing time order; every
\* pushed event is either still held or was returned by exactly one pop.
C3_PopReturnsMinimum ==
    /\ qsince > 0 =>
          \A k \in 1..Len(qheap) : LastPopped.time <= qheap[k].time
    /\ \A k \in (Len(qpopped) - qsince + 1)..(Len(qpopped) - 1) :
          qpopped[k].time <= qpopped[k + 1].time
    /\ Len(qheap) + Len(qpopped) = qcount
    /\ {qheap[k].request_id : k \in 1..Len(qheap)}
          \cup {qpopped[k].request_id : k \in 1..Len(qpopped)} = 0..(qcount - 1)

C3_Witness ==
    /\ qheap = <<>>
    /\ qsince >= 3
    /\ \E k \in 1..(Len(qpopped) - 1) :
          /\ qpopped[k].time < qpopped[k + 1].time
          /\ qpopped[k].request_id > qpopped[k + 1].request_id

\* C4: an event returned by pop leaves no event of the same time behind
\* that was pushed before it (FIFO among events of equal time).
C4_FifoAmongTies ==
    qsince > 0 =>
        \A k \in 1..Len(qheap) :
            qheap[k].time = LastPopped.time
                => qheap[k].request_id > LastPopped.request_id

\* C5: when run_single_realization has returned, the occupancy histogram
\* sums to the horizon T and the returned probabilities sum to 1.
C5_HistogramSumsToHorizon ==
    \A i \in Engines :
        eng[i].pc = "done" =>
            /\ SumOver(eng[i].state_history, DOMAIN eng[i].state_history) = eng[i].T
            /\ SumOver([s \in DOMAIN eng[i].stats.probabilities |->
                            eng[i].stats.probabilities[s][1]],
                       DOMAIN eng[i].stats.probabilities) = eng[i].stats.T
            /\ \A s \in DOMAIN eng[i].stats.probabilities :
                  eng[i].stats.probabilities[s][2] = eng[i].stats.T

C5_Witness ==
    \E i \in Engines :
        /\ eng[i].pc = "done"
        /\ eng[i].last_state_time < eng[i].T
        /\ eng[i].last_state_time > 0
        /\ Cardinality({s \in DOMAIN eng[i].state_history :
                            eng[i].state_history[s] > 0}) >= 3

\* C6: the returned statistics satisfy N_arrivals = N_served + N_rejected.
C6_Conservation ==
    \A i \in Engines :
        eng[i].pc = "done" =>
            eng[i].stats.N_arrivals = eng[i].stats.N_served + eng[i].stats.N_rejected

C6_Witness ==
    \E i \in Engines :
        /\ eng[i].pc = "done"
        /\ eng[i].stats.N_rejected > 0
        /\ eng[i].stats.N_served > 0
        /\ \E k \in 1..Len(eng[i].all_requests) :
              /\ ~eng[i].all_requests[k].was_rejected
              /\ eng[i].all_requests[k].service_end_time = None

\* C7: at every point of a realization at most n_channels channels are
\* busy, and with m_queue set the waiting line holds at most m_queue
\* requests and the occupancy level lies in 0..n_channels + m_queue.
C7_OccupancyBounds ==
    \A i \in Engines :
        eng[i].pc \in {"running", "done"} =>
            /\ get_busy_channels(eng[i]) <= eng[i].n_channels
            /\ eng[i].m_queue # None =>
                  /\ get_queue_length(eng[i]) <= eng[i].m_queue
                  /\ get_state(eng[i]) \in 0..(eng[i].n_channels + eng[i].m_queue)
                  /\ eng[i].last_state \in 0..(eng[i].n_channels + eng[i].m_queue)

C7_Witness ==
    \E i \in Engines :
        /\ eng[i].pc = "running"
        /\ eng[i].n_channels = MaxChannels
        /\ eng[i].m_queue = MaxQueue
        /\ get_state(eng[i]) = MaxChannels + MaxQueue
        /\ eng[i].rejected_requests # <<>>

IsSet(x) == x # None

\* x <= y whenever both are set
LeqIfSet(x, y) == (IsSet(x) /\ IsSet(y)) => x <= y

\* C8: every Request has arrival_time <= queue_entry_time <= queue_exit_time
\* <= service_start_time among the fields that are set, and a rejected
\* Request has no service or queue time set.
C8_RequestTimesOrdered ==
    \A i \in Engines :
        \A k \in 1..Len(eng[i].all_requests) :
            LET r == eng[i].all_requests[k]
            IN  /\ LeqIfSet(r.arrival_time, r.queue_entry_time)
                /\ LeqIfSet(r.arrival_time, r.queue_exit_time)
                /\ LeqIfSet(r.arrival_time, r.service_start_time)
                /\ LeqIfSet(r.queue_entry_time, r.queue_exit_time)
                /\ LeqIfSet(r.queue_entry_time, r.service_start_time)
                /\ LeqIfSet(r.queue_exit_time, r.service_start_time)
                /\ r.was_rejected =>
                      /\ r.service_start_time = None
                      /\ r.service_end_time = None
                      /\ r.queue_entry_time = None
                      /\ r.queue_exit_time = None

C8_Witness ==
    \E i \in Engines :
        /\ \E k \in 1..Len(eng[i].all_requests) :
              LET r == eng[i].all_requests[k]
              IN  /\ IsSet(r.queue_entry_time)
                  /\ IsSet(r.service_start_time)
                  /\ r.service_start_time > r.queue_entry_time
        /\ \E k \in 1..Len(eng[i].all_requests) :
              eng[i].all_requests[k].was_rejected

\* C9: with m_queue = None no request is ever rejected, and the returned
\* N_rejected and p_rejection are 0.
C9_UnboundedNeverRejects ==
    \A i \in Engines :
        eng[i].m_queue = None =>
            /\ eng[i].rejected_requests = <<>>
            /\ \A k \in 1..Len(eng[i].all_requests) :
                  ~eng[i].all_requests[k].was_rejected
            /\ eng[i].pc = "done" =>
                  /\ eng[i].stats.N_rejected = 0
                  /\ eng[i].stats.p_rejection[1] = 0

C9_Witness ==
    \E i \in Engines :
        /\ eng[i].pc = "done"
        /\ eng[i].m_queue = None
        /\ eng[i].stats.N_arrivals >= 3
        /\ get_queue_length(eng[i]) >= 2

\* C10: with m_queue set, the request created by an arrival is rejected
\* exactly when, at the arrival, no channel is free and the waiting line
\* holds m_queue requests; a rejected request is in no channel, not in the
\* waiting line, and no END_SERVICE event carries its id.
C10_ArrivalStep(e, f) ==
    (/\ e.pc = "running"
     /\ f.pc = "running"
     /\ e.m_queue # None
     /\ Len(f.all_requests) = Len(e.all_requests) + 1)
    => LET r == f.all_requests[Len(f.all_requests)]
       IN  /\ r.was_rejected <=>
                (/\ \A c \in 1..Len(e.channels) : e.channels[c] # None
                 /\ Len(e.queue) = e.m_queue)
           /\ \A k \in 1..Len(f.all_requests) :
                 f.all_requests[k].was_rejected =>
                    /\ \A c \in 1..Len(f.channels) : f.channels[c] # k - 1
                    /\ \A q \in 1..Len(f.queue) : f.queue[q] # k - 1
                    /\ \A h \in 1..Len(f.heap) :
                          f.heap[h].event_type = "END_SERVICE"
                              => f.heap[h].request_id # k - 1

C10_RejectedIffFull ==
    [][\A i \in Engines : C10_ArrivalStep(eng[i], eng'[i])]_vars

C10_Witness ==
    \E i \in Engines :
        /\ eng[i].pc = "running"
        /\ eng[i].m_queue = 0
        /\ Len(eng[i].rejected_requests) >= 1
        /\ \E k \in 1..Len(eng[i].all_requests) :
              /\ ~eng[i].all_requests[k].was_rejected
              /\ eng[i].all_requests[k].service_end_time # None

\* C11: when run_single_realization returns, every event left in the event
\* queue or discarded by the loop has time > T (so every event of time <= T,
\* one at exactly T included, was applied), and no request has an arrival,
\* service start or service end later than T.
C11_ReturnStep(e, f) ==
    (e.pc = "running" /\ f.pc = "done")
    => /\ \A h \in 1..Len(e.heap) : e.heap[h].time > e.T
       /\ \A k \in 1..Len(f.all_requests) :
             LET r == f.all_requests[k]
             IN  /\ r.arrival_time <= f.T
                 /\ r.service_start_time <= f.T
                 /\ r.service_end_time <= f.T

C11_HorizonIsHardCutoff ==
    [][\A i \in Engines : C11_ReturnStep(eng[i], eng'[i])]_vars

C11_Witness ==
    \E i \in Engines :
        /\ eng[i].pc = "done"
        /\ Len(eng[i].heap) >= 1
        /\ \E k \in 1..Len(eng[i].all_requests) :
              eng[i].all_requests[k].service_end_time = eng[i].T
        /\ \E k \in 1..Len(eng[i].all_requests) :
              /\ eng[i].all_requests[k].service_start_time # None
              /\ eng[i].all_requests[k].service_end_time = None

\* C12: when run_single_realization fails on an invalid distribution
\* parameter, no event has been processed: no Request exists,
\* request_counter is 0 and the occupancy histogram holds no time.
C12_InvalidParameterFailsAtSetup ==
    \A i \in Engines :
        (/\ eng[i].pc = "error"
         /\ (eng[i].lambda_param <= 0 \/ eng[i].mu_param <= 0))
        => /\ eng[i].all_requests = <<>>
           /\ eng[i].request_counter = 0
           /\ SumOver(eng[i].state_history, DOMAIN eng[i].state_history) = 0

Generators == DOMAIN gen

\* C13: a sampling call that raises on an invalid parameter consumes no
\* uniform draw: the random stream is where it was before the call.
C13_SampleStep(h, f) ==
    (Len(f.outs) = Len(h.outs) + 1 /\ ~f.outs[Len(f.outs)].ok) => rng' = rng

C13_InvalidParameterConsumesNoDraw ==
    [][\A i \in Generators : C13_SampleStep(gen[i], gen'[i])]_vars

\* A NORMAL call has failed after an earlier call drew from the stream.
C13_Witness ==
    \E i \in Generators :
        /\ Len(gen[i].outs) = 2
        /\ gen[i].outs[1].ok
        /\ ~gen[i].outs[2].ok
        /\ gen[i].calls[2].dist_type = "NORMAL"

\* C14: two RandomGenerator instances constructed with the same seed and
\* asked the same sequence of sampling calls have returned the same
\* outputs, whatever the order of the constructions and calls.
C14_SameSeedSameOutputs ==
    \A i \in Generators, j \in Generators :
        (/\ gen[i].made /\ gen[j].made
         /\ gen[i].seed # None
         /\ gen[i].seed = gen[j].seed
         /\ gen[i].calls = gen[j].calls)
        => gen[i].outs = gen[j].outs

\* C15 as stated: every value returned by a sampling method for valid
\* parameters is >= 0.
C15_EverySampleNonNegative ==
    \A i \in Generators : \A k \in 1..Len(gen[i].outs) :
        gen[i].outs[k].ok => gen[i].outs[k].val >= 0

\* C15: every value returned for valid parameters by the exponential,
\* Weibull and gamma methods is >= 0; a normal value may be negative and is
\* never below m - 5 * sigma.
C15_SampleLowerBounds ==
    \A i \in Generators : \A k \in 1..Len(gen[i].outs) :
        LET c == gen[i].calls[k]
            o == gen[i].outs[k]
        IN  o.ok => IF c.dist_type = "NORMAL"
                    THEN o.val >= c.kwargs.m - 5 * c.kwargs.sigma
                    ELSE o.val >= 0

\* A gamma sample and a Weibull sample, both positive, have been returned.
C15_Witness ==
    \E i \in Generators :
        /\ Len(gen[i].outs) = 2
        /\ gen[i].calls[1].dist_type = "GAMMA"
        /\ gen[i].calls[2].dist_type = "WEIBULL"
        /\ gen[i].outs[1].ok /\ gen[i].outs[1].val > 0
        /\ gen[i].outs[2].ok /\ gen[i].outs[2].val > 0

\* C16: pop and peek on an empty EventQueue raise and leave it empty; the
\* queue stays usable, a push made after the error followed by a pop
\* returning the pushed event; peek on a non-empty queue changes neither
\* size nor contents and returns the event that the next pop returns.
C16_QueueStep ==
    /\ (qheap = <<>> /\ qlast'.op \in {"pop", "peek"})
       => (qerr' /\ qlast'.ret = <<>> /\ qheap' = <<>>)
    /\ (qerr /\ qlast'.op = "push")
       => (~qerr' /\ Len(qheap') = 1 /\ qheap'[1].request_id = qcount)
    /\ (Len(qheap) = 1 /\ qlast'.op = "pop")
       => (~qerr' /\ qlast'.ret = <<qheap[1]>> /\ qheap' = <<>>)
    /\ (qheap # <<>> /\ qlast'.op = "peek")
       => (~qerr' /\ qlast'.ret # <<>> /\ qheap' = qheap)
    /\ (qlast.op = "peek" /\ qlast.ret # <<>> /\ qlast'.op = "pop")
       => qlast'.ret = qlast.ret

C16_EmptyQueueErrorsAndPeek == [][C16_QueueStep]_vars

\* peek has returned an event of a queue that holds several, after pops.
C16_Witness ==
    /\ qlast.op = "peek"
    /\ qlast.ret # <<>>
    /\ Len(qheap) >= 2
    /\ qpopped # <<>>

\* C17 as stated: after a realization the keys of the occupancy histogram
\* and of the returned probabilities are exactly the levels that were
\* occupied during [0, T].
C17_KeysAreVisitedLevels ==
    \A i \in Engines :
        eng[i].pc = "done"
        => /\ DOMAIN eng[i].state_history = eng[i].visited
           /\ DOMAIN eng[i].stats.probabilities = eng[i].visited

\* The levels QueueSystem.__post_init__ enters in the histogram.
InitialLevels(e) ==
    0..(e.n_channels + (IF e.m_queue = None THEN 0 ELSE e.m_queue))

\* C17: after a realization the keys of the occupancy histogram, and of
\* the returned probabilities, are the levels 0..n_channels + (m_queue or
\* 0) entered at construction together with levels that were occupied; a
\* key holding time was occupied, and an occupied level has a key unless
\* the system entered it at the horizon itself.
C17_HistogramKeys ==
    \A i \in Engines :
        eng[i].pc = "done"
        => LET e == eng[i]
               keys == DOMAIN e.state_history
           IN  /\ InitialLevels(e) \subseteq keys
               /\ keys \subseteq InitialLevels(e) \cup e.visited
               /\ \A k \in keys : e.state_history[k] > 0 => k \in e.visited
               /\ \A v \in e.visited :
                     v \in keys \/ (v = e.last_state /\ e.last_state_time = e.T)
               /\ DOMAIN e.stats.probabilities = keys

\* A finished realization that occupied several levels and whose histogram
\* has a key for a level it never occupied.
C17_Witness ==
    \E i \in Engines :
        /\ eng[i].pc = "done"
        /\ \E k \in DOMAIN eng[i].state_history : k \notin eng[i].visited
        /\ Cardinality(eng[i].visited) >= 2

\* The requests of an engine that were not rejected.
NonRejected(e) ==
    {k \in 1..Len(e.all_requests) : ~e.all_requests[k].was_rejected}

\* a / b = c / d for rationals kept as pairs
SameRatio(x, y) == x[1] * y[2] = y[1] * x[2]

\* C18: the avg_wait_time of a realization is the sum of service_start_time
\* - queue_entry_time over the non-rejected requests (0 for a request
\* served on arrival) divided by the number of non-rejected requests, and
\* 0 when there are none.
C18_AvgWaitIsMeanOverNonRejected ==
    \A i \in Engines :
        eng[i].pc = "done"
        => LET e == eng[i]
               waits == [k \in NonRejected(e) |-> get_wait_time(e.all_requests[k])]
               expected == IF NonRejected(e) = {} THEN Ratio(0, 1)
                           ELSE Ratio(SumOver(waits, NonRejected(e)),
                                      Cardinality(NonRejected(e)))
           IN  SameRatio(e.stats.avg_wait_time, expected)

\* C19: the avg_system_time of a realization is the mean of service_end_time
\* - arrival_time over the non-rejected requests whose service has ended;
\* requests still waiting or in service at the horizon are not counted.
C19_AvgSystemTimeOverCompleted ==
    \A i \in Engines :
        eng[i].pc = "done"
        => LET e == eng[i]
               ended == {k \in NonRejected(e) :
                            e.all_requests[k].service_end_time # None}
               times == [k \in ended |-> e.all_requests[k].service_end_time
                                          - e.all_requests[k].arrival_time]
               expected == IF ended = {} THEN Ratio(0, 1)
                           ELSE Ratio(SumOver(times, ended), Cardinality(ended))
           IN  SameRatio(e.stats.avg_system_time, expected)

\* C20: the avg_queue_length of a realization is the sum over every
\* occupied level above n_channels of (level - n_channels) times the
\* probability of the level, and avg_queue_length times T is the integral
\* of the waiting-line length over [0, T].
C20_AvgQueueLengthCoversEveryLevel ==
    \A i \in Engines :
        eng[i].pc = "done"
        => LET e == eng[i]
               above == {k \in e.visited : k > e.n_channels}
               time == [k \in above |->
                           IF k \in DOMAIN e.state_history
                           THEN e.state_history[k] ELSE 0]
               weighted == [k \in above |-> (k - e.n_channels) * time[k]]
           IN  /\ e.stats.avg_queue_length
                    = Ratio(SumOver(weighted, above), e.T)
               /\ e.stats.avg_queue_length = Ratio(e.queue_integral, e.T)

\* A finished realization in which the waiting line held two requests for
\* some time, on a system whose histogram had no key for that level at
\* construction.
C20_Witness ==
    \E i \in Engines :
        /\ eng[i].pc = "done"
        /\ eng[i].m_queue = None
        /\ (eng[i].n_channels + 2) \in DOMAIN eng[i].state_history
        /\ eng[i].state_history[eng[i].n_channels + 2] > 0
        /\ eng[i].queue_integral > 2

\* C21: a realization whose first arrival falls after the horizon T > 0 ends
\* without error and returns N_arrivals = 0 with the arrival rate, the
\* rejection probability, both throughputs, the mean queue length, the
\* mean wait and the mean sojourn all equal to 0.
C21_NoArrivalsAllMetricsZero ==
    \A i \in Engines :
        (/\ eng[i].pc \in {"done", "error"}
         /\ eng[i].lambda_param > 0
         /\ eng[i].T > 0
         /\ eng[i].request_counter = 0)
        => /\ eng[i].pc = "done"
           /\ eng[i].stats.N_arrivals = 0
           /\ eng[i].stats.lambda_avg[1] = 0
           /\ eng[i].stats.p_rejection[1] = 0
           /\ eng[i].stats.relative_throughput[1] = 0
           /\ eng[i].stats.absolute_throughput[1] = 0
           /\ eng[i].stats.avg_queue_length[1] = 0
           /\ eng[i].stats.avg_wait_time[1] = 0
           /\ eng[i].stats.avg_system_time[1] = 0

\* C22: compute_statistics averages the probability of each occupancy
\* level over all the realizations: a realization without the level counts
\* as probability 0 in the mean and in the standard deviation, and the
\* divisor is the number of realizations.
C22_MissingLevelCountsAsZero ==
    (agg.made /\ agg.computed)
    => LET n == Len(agg.realizations)
           levels == UNION {DOMAIN agg.realizations[k].probabilities : k \in 1..n}
       IN  /\ DOMAIN agg.avg_probabilities = levels
           /\ DOMAIN agg.std_probabilities = levels
           /\ \A level \in levels :
                LET p == [k \in 1..n |->
                            IF level \in DOMAIN agg.realizations[k].probabilities
                            THEN agg.realizations[k].probabilities[level]
                            ELSE 0]
                    total == SumOver(p, 1..n)
                    squares == SumOver([k \in 1..n |-> p[k] * p[k]], 1..n)
                IN  /\ agg.avg_probabilities[level] = Ratio(total, n)
                    /\ agg.std_probabilities[level]
                         = IF n > 1
                           THEN Ratio(n * squares - total * total, n * (n - 1))
                           ELSE Ratio(0, 1)

\* Statistics computed of two realizations, the first of which never was
\* at a level that the second was at with positive probability.
C22_Witness ==
    /\ agg.made /\ agg.computed
    /\ Len(agg.realizations) = 2
    /\ MaxLevel \notin DOMAIN agg.realizations[1].probabilities
    /\ MaxLevel \in DOMAIN agg.realizations[2].probabilities
    /\ agg.realizations[2].probabilities[MaxLevel] > 0

\* The list reordered by a permutation f of its indices.
Permuted(list, f) == [k \in 1..Len(list) |-> list[f[k]]]

\* Every mean and standard deviation compute_statistics writes.
Outputs(m) == <<m.avg_probabilities, m.std_probabilities, m.avg, m.std>>

\* C23: the means and standard deviations written by compute_statistics,
\* per scalar metric and per occupancy level, are the same for every
\* permutation of the list of realizations.
C23_OrderIndependent ==
    (agg.made /\ agg.computed)
    => \A f \in Permutations(1..Len(agg.realizations)) :
          Outputs(compute_statistics(
                      MultiRealizationStatistics(Permuted(agg.realizations, f))))
            = Outputs(agg)

\* Statistics computed of a list whose realizations differ in their levels
\* and in their metrics, the first one having the fewest levels.
C23_Witness ==
    /\ agg.made /\ agg.computed
    /\ Len(agg.realizations) >= 2
    /\ DOMAIN agg.realizations[1].probabilities = {0}
    /\ MaxLevel \in DOMAIN agg.realizations[2].probabilities
    /\ agg.realizations[1].avg_queue_length # agg.realizations[2].avg_queue_length

\* C24: calculate_mm1_characteristics reports stable = False, and returns
\* no metric, exactly when lambda >= mu, and calculate_mmn_characteristics
\* exactly when lambda >= n * mu.
C24_UnstableIffAtOrAboveCapacity ==
    (theory.made /\ theory.fn \in {"mm1", "mmn"})
    => /\ (~theory.result.stable)
            <=> (theory.lambda_val >= theory.n_channels * theory.mu_val)
       /\ (~theory.result.stable) => DOMAIN theory.result = {"stable", "error"}
       /\ theory.result.stable => "avg_queue_length" \in DOMAIN theory.result

\* calculate_mmn_characteristics was called for several channels with
\* lambda = n * mu and reported the system unstable.
C24_Witness ==
    /\ theory.made
    /\ theory.fn = "mmn"
    /\ theory.n_channels >= 2
    /\ theory.lambda_val = theory.n_channels * theory.mu_val
    /\ ~theory.result.stable

\* sum of a ** k / k! for k = 0..n-1
RECURSIVE ErlangSum(_, _)
ErlangSum(a, n) ==
    IF n = 0 THEN Q(0, 1)
    ELSE QAdd(ErlangSum(a, n - 1), QDiv(QPow(a, n - 1), Q(Factorial(n - 1), 1)))

\* C25: for a stable configuration the p0 of calculate_mmn_characteristics
\* satisfies 1/p0 = sum_{k<n} a^k/k! + a^n / (n! (1 - rho)); for n = 1 it
\* is the p0 of calculate_mm1_characteristics, and the mean queue length,
\* wait and sojourn of the two functions agree.
C25_ErlangCNormalization ==
    (theory.made /\ theory.fn = "mmn" /\ theory.result.stable)
    => LET n == theory.n_channels
           a == Q(theory.lambda_val, theory.mu_val)
           rho == Q(theory.lambda_val, n * theory.mu_val)
           mm1 == calculate_mm1_characteristics(theory.lambda_val, theory.mu_val)
       IN  /\ QDiv(Q(1, 1), theory.result.p0)
                = QAdd(ErlangSum(a, n),
                       QDiv(QPow(a, n),
                            QMul(Q(Factorial(n), 1), QSub(Q(1, 1), rho))))
           /\ n = 1 => /\ theory.result.p0 = mm1.p0
                       /\ theory.result.avg_queue_length = mm1.avg_queue_length
                       /\ theory.result.avg_wait_time = mm1.avg_wait_time
                       /\ theory.result.avg_system_time = mm1.avg_system_time

\* The metrics validate_simulation compares: each state of the theoretical
\* probabilities and each characteristic the theoretical dictionary holds,
\* with the simulated and the theoretical value of each.
Compared ==
    LET theoretical == theory.result
    IN  (IF "probabilities" \in DOMAIN theoretical
         THEN {[key |-> <<"p", state>>,
                sim |-> SimulatedProbability(agg, state),
                theo |-> theoretical.probabilities[state]] :
                  state \in DOMAIN theoretical.probabilities}
         ELSE {})
        \cup {[key |-> <<c[1], 0>>,
               sim |-> SimulatedValue(agg, theoretical, c),
               theo |-> theoretical[c[3]]] :
                 c \in {x \in Characteristics : x[3] \in DOMAIN theoretical}}

C26_Results ==
    LET errors == validation.results.errors
        max_error == validation.results.max_error
        all_within == \A key \in DOMAIN errors : QLeq(errors[key], validation.epsilon)
    IN  /\ DOMAIN errors = {m.key : m \in Compared}
        /\ \A m \in Compared :
              errors[m.key] = IF m.theo = Q(0, 1)
                              THEN QAbs(QSub(m.sim, m.theo))
                              ELSE QDiv(QAbs(QSub(m.sim, m.theo)), m.theo)
        /\ \A key \in DOMAIN errors : QLeq(errors[key], max_error)
        /\ IF DOMAIN errors = {}
           THEN max_error = Q(0, 1)
           ELSE \E key \in DOMAIN errors : errors[key] = max_error
        /\ validation.results.within_tolerance <=> all_within
        /\ validation.results.within_tolerance <=> QLeq(max_error, validation.epsilon)

\* validate_simulation only reads its two arguments
C26_ValidateStep ==
    (~validation.made /\ validation'.made) => (agg' = agg /\ theory' = theory)

\* C26: validate_simulation computes for each compared metric the error
\* |simulated - theoretical| / theoretical, or the absolute error when the
\* theoretical value is 0; max_error is the largest of them;
\* within_tolerance holds exactly when every error is <= epsilon, that is
\* when max_error <= epsilon; and neither argument is changed.
C26_ValidationErrors ==
    /\ [](validation.made => C26_Results)
    /\ [][C26_ValidateStep]_vars

\* A validation found within tolerance although both the error against a
\* theoretical value of 0 and the error against a positive one are positive.
C26_Witness ==
    /\ validation.made
    /\ validation.results.within_tolerance
    /\ theory.fn = "given"
    /\ theory.result.avg_queue_length = Q(0, 1)
    /\ QLess(Q(0, 1), validation.results.errors[<<"queue_length", 0>>])
    /\ QLess(Q(0, 1), validation.results.errors[<<"wait_time", 0>>])

\* C27: with a finite horizon and inter-arrival intervals bounded below by
\* one tick, a running realization always comes to its end: an event
\* beyond T is popped and the loop stops, and for a positive horizon the
\* statistics are returned.
C27_RealizationTerminates ==
    \A i \in {1} :
        (eng[i].pc = "running")
            ~> /\ eng[i].pc # "running"
               /\ eng[i].T > 0 => (eng[i].pc = "done" /\ eng[i].stats # <<>>)

\* a realization that handled several arrivals and then returned
C27_Witness ==
    \E i \in Engines :
        /\ eng[i].pc = "done"
        /\ eng[i].stats # <<>>
        /\ eng[i].request_counter >= 2
        /\ eng[i].T > 0

\* LiveStepEnabled is ENABLED <<LiveStep(i)>>_vars: wherever it holds, some
\* state of the random source gives an iteration with a positive interval
\* that changes the engine.
LiveStepEnabled_Sound ==
    \A i \in Engines :
        LiveStepEnabled(i) =>
            \E g \in 0..(RngMod - 1) :
                LET r == LoopStep(eng[i], g)
                    event == HeapPop(eng[i].heap).item
                IN  /\ (r.e.pc = "running" /\ event.event_type = "ARRIVAL")
                          => PositiveInterval(r.e, event.time)
                    /\ r.e # eng[i]

PendingArrivals(e) ==
    {k \in DOMAIN e.heap : e.heap[k].event_type = "ARRIVAL"}

\* What holds of one loop iteration of each engine
C29_Iteration ==
    \A i \in Engines :
        eng[i].pc = "running" =>
            /\ Cardinality(PendingArrivals(eng[i])) = 1
            /\ eng[i].heap # <<>>
            /\ eng'[i].pc # "running" =>
                  \/ HeapPop(eng[i].heap).item.time > eng[i].T
                  \/ eng'[i].pc = "error" /\ eng[i].mu_param <= 0

\* C29: at the start of every iteration of the event loop the event queue
\* holds exactly one ARRIVAL event, so the pop of the iteration finds an
\* event; and the loop is left only by popping an event with time > T
\* (or by the ValueError of a service rate that is not positive).
C29_OneArrivalPending == [][C29_Iteration]_vars

\* an iteration starts with the next arrival and a service end pending,
\* after several arrivals
C29_Witness ==
    \E i \in Engines :
        /\ eng[i].pc = "running"
        /\ eng[i].request_counter >= 2
        /\ Len(eng[i].heap) >= 2
        /\ Cardinality(PendingArrivals(eng[i])) = 1

\* The END_SERVICE events pending in the event queue of an engine
PendingServiceEnds(e) ==
    {k \in DOMAIN e.heap : e.heap[k].event_type = "END_SERVICE"}

C31_NoWaitingBesideFreeChannel ==
    \A i \in Engines :
        eng[i].pc \in {"running", "done"} =>
            /\ eng[i].queue # <<>> =>
                  \A c \in 1..eng[i].n_channels : eng[i].channels[c] # None
            /\ get_queue_length(eng[i])
                  = (IF get_state(eng[i]) > eng[i].n_channels
                     THEN get_state(eng[i]) - eng[i].n_channels ELSE 0)

\* two requests wait behind two busy channels after a request has left the
\* waiting line for a freed channel
C31_Witness ==
    \E i \in Engines :
        /\ eng[i].pc = "running"
        /\ eng[i].n_channels = 2
        /\ Len(eng[i].queue) = 2
        /\ \E r \in DOMAIN eng[i].all_requests :
              /\ eng[i].all_requests[r].queue_entry_time # None
              /\ eng[i].all_requests[r].service_start_time # None

\* C32: requests leave the waiting line in the order in which they entered
\* it, and requests start service in the order of their arrival: of two
\* requests whose service has started, the one that arrived first did not
\* start later.
C32_ServiceStartsInArrivalOrder ==
    \A i \in Engines :
        eng[i].pc \in {"running", "done"} =>
            LET req == eng[i].all_requests
            IN  /\ \A a, b \in DOMAIN req :
                      (a < b /\ req[a].service_start_time # None
                             /\ req[b].service_start_time # None)
                      => /\ req[a].arrival_time <= req[b].arrival_time
                         /\ req[a].service_start_time <= req[b].service_start_time
                /\ \A a, b \in DOMAIN req :
                      (req[a].arrival_time < req[b].arrival_time
                          /\ req[a].service_start_time # None
                          /\ req[b].service_start_time # None)
                      => req[a].service_start_time <= req[b].service_start_time
                /\ \A k \in 1..(Len(eng[i].queue) - 1) :
                      eng[i].queue[k] < eng[i].queue[k + 1]

\* two requests waited in the line together and left it at different times
C32_Witness ==
    \E i \in Engines :
        /\ eng[i].pc \in {"running", "done"}
        /\ \E a, b \in DOMAIN eng[i].all_requests :
              LET ra == eng[i].all_requests[a]
                  rb == eng[i].all_requests[b]
              IN  /\ a < b
                  /\ ra.queue_entry_time # None
                  /\ rb.queue_entry_time # None
                  /\ ra.service_start_time # None
                  /\ rb.service_start_time # None
                  /\ rb.queue_entry_time < ra.service_start_time
                  /\ ra.service_start_time < rb.service_start_time

\* What one loop iteration does to the service durations and to the
\* random source: the durations of the requests that exist stay as they
\* are, handling an END_SERVICE event draws nothing, and handling an
\* ARRIVAL draws twice (the service duration of the new request and the
\* next inter-arrival interval).
C33_Iteration ==
    \A i \in Engines :
        (eng[i].pc = "running" /\ eng'[i].pc \in {"running", "done"}) =>
            LET event == HeapPop(eng[i].heap).item
            IN  /\ \A r \in DOMAIN eng[i].all_requests :
                      eng'[i].all_requests[r].service_duration
                          = eng[i].all_requests[r].service_duration
                /\ (event.event_type = "END_SERVICE" \/ event.time > eng[i].T)
                      => rng' = rng
                /\ (event.event_type = "ARRIVAL" /\ event.time <= eng[i].T)
                      => /\ rng' = RngNext(RngNext(rng))
                         /\ Len(eng'[i].all_requests) = Len(eng[i].all_requests) + 1

\* C33: the service duration of a request is drawn once, when the request
\* is created, and used unchanged when its service starts, also after
\* waiting: for every request whose service has ended,
\* service_end_time - service_start_time is its service_duration.
C33_ServiceDurationDrawnOnce ==
    /\ [](\A i \in Engines :
             eng[i].pc \in {"running", "done"} =>
                 \A r \in DOMAIN eng[i].all_requests :
                     eng[i].all_requests[r].service_end_time # None =>
                         eng[i].all_requests[r].service_end_time
                             - eng[i].all_requests[r].service_start_time
                           = eng[i].all_requests[r].service_duration)
    /\ [][C33_Iteration]_vars

\* a request that waited in the line has been served, for a duration
\* that differs from the one of the request served before it
C33_Witness ==
    \E i \in Engines :
        /\ eng[i].pc \in {"running", "done"}
        /\ \E a, b \in DOMAIN eng[i].all_requests :
              LET ra == eng[i].all_requests[a]
                  rb == eng[i].all_requests[b]
              IN  /\ a < b
                  /\ rb.queue_entry_time # None
                  /\ rb.service_end_time # None
                  /\ ra.service_end_time = rb.service_start_time
                  /\ ra.service_duration # rb.service_duration
                  /\ rb.service_duration > 0

\* What one loop iteration does to the clock: the event it pops is not
\* earlier than the clock, the clock and last_state_time do not go back,
\* and no entry of the occupancy histogram decreases (every duration
\* added is >= 0).
C34_Iteration ==
    \A i \in Engines :
        (eng[i].pc = "running" /\ eng'[i].pc \in {"running", "done"}) =>
            LET event == HeapPop(eng[i].heap).item
            IN  /\ event.time >= eng[i].current_time
                /\ event.time >= eng[i].last_state_time
                /\ eng'[i].current_time >= eng[i].current_time
                /\ eng'[i].last_state_time >= eng[i].last_state_time
                /\ eng'[i].pc = "running" =>
                      /\ eng'[i].current_time = event.time
                      /\ eng'[i].last_state_time = event.time
                /\ \A k \in DOMAIN eng[i].state_history :
                      /\ k \in DOMAIN eng'[i].state_history
                      /\ eng'[i].state_history[k] >= eng[i].state_history[k]

\* C34: within a realization events are handled in non-decreasing time
\* order: the clock (system.current_time, last_state_time) never
\* decreases, no pending event lies before it, and every duration added
\* to the occupancy histogram is >= 0 (the sampled intervals and service
\* durations being >= 0).
C34_ClockNeverDecreases ==
    /\ [](\A i \in Engines :
             eng[i].pc = "running" =>
                 /\ eng[i].last_state_time = eng[i].current_time
                 /\ \A k \in DOMAIN eng[i].heap :
                       eng[i].heap[k].time >= eng[i].current_time
                 /\ \A k \in DOMAIN eng[i].state_history :
                       eng[i].state_history[k] >= 0)
    /\ [][C34_Iteration]_vars

\* an iteration has started with the clock advanced and an END_SERVICE
\* event and a later ARRIVAL event pending
C34_Witness ==
    \E i \in Engines :
        /\ eng[i].pc = "running"
        /\ eng[i].current_time > 0
        /\ \E j, k \in DOMAIN eng[i].heap :
              /\ eng[i].heap[j].event_type = "END_SERVICE"
              /\ eng[i].heap[k].event_type = "ARRIVAL"
              /\ eng[i].heap[j].time < eng[i].heap[k].time
        /\ \E k \in DOMAIN eng[i].state_history : eng[i].state_history[k] > 0

\* What a call of run_single_realization on engine i leaves, whatever the
\* earlier realizations left: the state a newly constructed engine with the
\* same arguments would be in after the same call, that is empty channels,
\* an empty waiting line, an all-zero histogram, request counter 0, empty
\* request lists, and an event queue holding the first ARRIVAL only.
C35_Call ==
    \A i \in Engines :
        eng'[i].runs = eng[i].runs + 1 =>
            LET e == eng[i]
                fresh == NewEngine(e.n_channels, e.m_queue, e.lambda_param,
                                   e.mu_param, e.seed)
            IN  /\ eng'[i] = [RunStart(fresh, rng, eng'[i].T).e
                                 EXCEPT !.runs = e.runs + 1]
                /\ \A c \in 1..e.n_channels : eng'[i].channels[c] = None
                /\ eng'[i].queue = <<>>
                /\ \A k \in DOMAIN eng'[i].state_history :
                      eng'[i].state_history[k] = 0
                /\ eng'[i].request_counter = 0
                /\ eng'[i].all_requests = <<>>
                /\ eng'[i].rejected_requests = <<>>
                /\ Len(eng'[i].heap) = 1
                /\ eng'[i].heap[1].event_type = "ARRIVAL"
                /\ eng'[i].heap[1].request_id = 0

\* C35: after any sequence of earlier realizations on the same engine,
\* however they ended, each new run_single_realization starts from empty
\* channels, an empty waiting line, an all-zero occupancy histogram, an
\* empty event queue (into which the first arrival is then scheduled),
\* request counter 0 and empty request lists; nothing of an earlier
\* realization is visible in a later one.
C35_EveryRealizationStartsFresh == [][C35_Call]_vars

\* a second realization on an engine has handled arrivals and ended
C35_Witness ==
    \E i \in Engines :
        /\ eng[i].runs >= 2
        /\ eng[i].pc = "done"
        /\ eng[i].request_counter >= 1
        /\ eng[i].heap # <<>>

\* What a call of run_single_realization does to the random source: it
\* takes the source where the earlier draws left it (rng0 is the state it
\* starts from) and makes the one draw of the first inter-arrival interval.
C36_Call ==
    \A i \in Engines :
        eng'[i].runs = eng[i].runs + 1 =>
            /\ eng'[i].rng0 = rng
            /\ rng' = RandomRandom(rng).rng

\* C36: run_single_realization never reseeds the random source; the seed
\* is applied when the engine is constructed only.  Consecutive
\* realizations on one engine consume consecutive segments of one stream:
\* each starts where the one before stopped, and its result is the one a
\* realization gives from that point of the stream.
C36_NeverReseeds ==
    /\ [](\A i \in Engines :
             /\ (eng[i].pc = "constructed" /\ eng[i].seed # None)
                   => rng = RandomSeed(eng[i].seed)
             /\ (eng[i].pc = "done" /\ eng[i].T > 0) =>
                   LET fresh == NewEngine(eng[i].n_channels, eng[i].m_queue,
                                          eng[i].lambda_param, eng[i].mu_param,
                                          eng[i].seed)
                   IN  eng[i].stats = RunAlone(fresh, eng[i].rng0, eng[i].T).stats)
    /\ [][C36_Call]_vars

\* the second realization on a seeded engine has ended with a result that
\* differs from the one the same call gives right after seeding
C36_Witness ==
    \E i \in Engines :
        /\ eng[i].runs = 2
        /\ eng[i].pc = "done"
        /\ eng[i].seed # None
        /\ eng[i].rng0 # RandomSeed(eng[i].seed)
        /\ LET fresh == NewEngine(eng[i].n_channels, eng[i].m_queue,
                                   eng[i].lambda_param, eng[i].mu_param,
                                   eng[i].seed)
           IN  eng[i].stats
                  # RunAlone(fresh, RandomSeed(eng[i].seed), eng[i].T).stats

\* min(level, n_channels) weighted by the time spent at each visited level
BusyOverVisitedLevels(e) ==
    SumOverLevels([k \in DOMAIN e.state_history |->
                    (IF k < e.n_channels THEN k ELSE e.n_channels)
                    * e.state_history[k]],
                  DOMAIN e.state_history)

\* C37: avg_busy_channels returned by a realization is the mean number of
\* busy channels over [0, T]: avg_busy_channels x T is the time integral of
\* the number of busy channels, which is the sum over all visited levels of
\* min(level, n_channels) x probability(level) x T.
C37_AvgBusyChannelsIsMeanBusy ==
    \A i \in DOMAIN eng :
        (eng[i].pc = "done" /\ eng[i].stats # <<>>) =>
            /\ eng[i].busy_integral = BusyOverVisitedLevels(eng[i])
            /\ eng[i].stats.avg_busy_channels
                   = Ratio(eng[i].busy_integral, eng[i].stats.T)

\* The requests of the realization that are still in the waiting line or
\* still in a channel.
StillInSystem(e) ==
    {k \in 1..Len(e.all_requests) :
        /\ ~e.all_requests[k].was_rejected
        /\ e.all_requests[k].service_end_time = None}

\* C38: N_served returned by a realization counts exactly the requests
\* whose service completed (service_end_time set) by the horizon T, and
\* counts no request that is still waiting or still in service at T.
C38_ServedCountsCompletedOnly ==
    \A i \in DOMAIN eng :
        (eng[i].pc = "done" /\ eng[i].stats # <<>>) =>
            /\ eng[i].stats.N_served
                   = Cardinality({k \in 1..Len(eng[i].all_requests) :
                        eng[i].all_requests[k].service_end_time # None})
            /\ eng[i].stats.N_served + Cardinality(StillInSystem(eng[i]))
                   + eng[i].stats.N_rejected
                   = eng[i].stats.N_arrivals

\* C39: when validate_simulation is given the result the analytic reference
\* returns for an unstable configuration (stable = False, no metrics), it
\* computes no error at all and reports max_error = 0 and
\* within_tolerance = True, whatever the simulated input and epsilon.
C39_UnstableReferenceValidates ==
    (validation.made /\ theory.result = UnstableResult) =>
        /\ DOMAIN validation.results.errors = {}
        /\ validation.results.max_error = Q(0, 1)
        /\ validation.results.within_tolerance

C39_Witness ==
    /\ validation.made
    /\ theory.fn \in {"mm1", "mmn"}
    /\ theory.result = UnstableResult
    /\ validation.epsilon = Q(0, 1)
    /\ agg.computed
    /\ QLess(Q(0, 1), agg.avg["queue_length"])
    /\ validation.results.within_tolerance

====
